---- MODULE Spec2Model ----
(***************************************************************************)
(* A model of the tool-calling chatbot: the tool contract (tools/base.py), *)
(* the tool registry (tools/registry.py) and the orchestration of one chat *)
(* turn (chatbot/bot.py).                                                  *)
(*                                                                         *)
(* Python strings are modelled as sequences of tokens (an f-string is the  *)
(* concatenation of its literal pieces and its interpolated values), so a  *)
(* message "mentions" something when the token occurs in it.  A Python     *)
(* exception is a record [type, msg]; an operation that may raise returns  *)
(* a record with a "raised" field.                                         *)
(***************************************************************************)
EXTENDS Naturals, Sequences, FiniteSets, TLC

(***************************************************************************)
(* Bounds of the model.                                                    *)
(***************************************************************************)
\* user messages sent plus tool calls requested by the model, in one run
MaxLoad == 4

\* messages in the registry's error list
MaxErrors == 2

\* parameters a tool handed to to_openai_tool declares
MaxParameters == 2

\* inputs the interactive loop passes on to chat, in one run of the program
MaxInputs == 2

VARIABLES
    conversation_history,   \* ChatBot.conversation_history: the transcript
    message_count,          \* ChatBot.message_count
    tool_registry,          \* ChatBot.tool_registry: [_tools, _tool_errors]
    pc,                     \* position of the control inside ChatBot.chat
    tool_calls,             \* chat: assistant_message.tool_calls of the first response
    idx,                    \* _handle_tool_calls: position of the for loop
    tool_results,           \* _handle_tool_calls: the local list tool_results
    model_calls,            \* the model calls made by the current turn, with their arguments
    dispatch_log,           \* the execute_tool calls of the current turn
    ret,                    \* what the last chat call gave its caller
    last_op,                \* the last operation of ChatBot that completed
    turn_base,              \* length of the transcript when the current turn began
    load,                   \* user messages and tool calls so far (bounded by MaxLoad)
    registry_call,          \* the last direct call of the registry's interface: the
                            \* operation, its arguments, the registry before it
    process,                \* main(): where the program is, its environment, its Config
    filesystem,             \* the directories and files on disk
    file_calls              \* the calls of FileOperationsTool.execute, with their results

vars == <<conversation_history, message_count, tool_registry, pc, tool_calls, idx,
          tool_results, model_calls, dispatch_log, ret, last_op, turn_base, load,
          registry_call, process, filesystem, file_calls>>

(***************************************************************************)
(* Text helpers.                                                           *)
(***************************************************************************)
\* Python None, in a slot that otherwise holds a text
None == <<"<None>">>

\* Python truthiness of an optional text: None and "" are falsy
Truthy(s) == s # None /\ s # <<>>

\* sep.join(items), items being a sequence of tokens
RECURSIVE Join(_, _)
Join(items, sep) ==
    IF Len(items) = 0 THEN <<>>
    ELSE IF Len(items) = 1 THEN <<items[1]>>
    ELSE <<items[1], sep>> \o Join(Tail(items), sep)

\* the token occurs in the text
Mentions(text, token) == \E i \in 1..Len(text) : text[i] = token

\* [p.name for p in parameters if p.required]
RECURSIVE RequiredNames(_)
RequiredNames(parameters) ==
    IF Len(parameters) = 0 THEN <<>>
    ELSE (IF parameters[1].required THEN <<parameters[1].name>> ELSE <<>>)
             \o RequiredNames(Tail(parameters))

\* a faulty missing_params, which C5 rejects: only the first missing name is kept
NotIn_FirstOnly(names, kwargs) ==
    LET missing == {n \in 1..Len(names) : names[n] \notin kwargs}
    IN  IF missing = {} THEN <<>>
        ELSE <<names[CHOOSE n \in missing : \A o \in missing : n <= o]>>

\* [param for param in names if param not in kwargs]
RECURSIVE NotIn(_, _)
NotIn(names, kwargs) ==
    IF Len(names) = 0 THEN <<>>
    ELSE (IF names[1] \notin kwargs THEN <<names[1]>> ELSE <<>>)
             \o NotIn(Tail(names), kwargs)

\* Python None, in a slot that otherwise holds a list
NoList == [is_none |-> TRUE]

\* a list, in a slot that may hold None
SomeList(items) == [is_none |-> FALSE, items |-> items]

Exception(type, msg) == [type |-> type, msg |-> msg]

Raise(e) == [raised |-> TRUE, exc |-> e]

Return(v) == [raised |-> FALSE, value |-> v]

(***************************************************************************)
(* Tool contract (tools/base.py) and the tools of the model.               *)
(***************************************************************************)
\* ToolParameter(name, type, description, required, enum); enum None is <<>>
ToolParameter(name, type, description, required, enum) ==
    [name |-> name, type |-> type, description |-> description,
     required |-> required, enum |-> enum]

\* tools/available/calculator.py
CalculatorTool ==
    [is_tool |-> TRUE, name |-> "calculator",
     description |-> <<"Perform mathematical calculations">>,
     parameters |-> <<ToolParameter("expression", "string", <<"expression">>, TRUE, <<>>)>>]

\* tools/available/weather_tool.py
WeatherTool ==
    [is_tool |-> TRUE, name |-> "weather",
     description |-> <<"Get real-time weather information">>,
     parameters |-> <<ToolParameter("city", "string", <<"City name">>, TRUE, <<>>),
                      ToolParameter("country", "string", <<"Country code">>, FALSE, <<>>)>>]

\* an implementation of BaseTool with two required parameters around an optional one
PairTool ==
    [is_tool |-> TRUE, name |-> "pair",
     description |-> <<"pair">>,
     parameters |-> <<ToolParameter("a", "number", <<"a">>, TRUE, <<>>),
                      ToolParameter("mode", "string", <<"mode">>, FALSE, <<"x", "y">>),
                      ToolParameter("b", "number", <<"b">>, TRUE, <<>>)>>]

\* a second tool of the name "calculator"
CalculatorToolV2 ==
    [is_tool |-> TRUE, name |-> "calculator",
     description |-> <<"Evaluate an expression">>,
     parameters |-> <<ToolParameter("expression", "string", <<"expression">>, TRUE, <<>>),
                      ToolParameter("precision", "number", <<"digits">>, FALSE, <<>>)>>]

\* an object that is no BaseTool: the text "not a tool"
NotATool == [is_tool |-> FALSE, name |-> "", description |-> <<>>, parameters |-> <<>>]

\* an implementation of BaseTool whose name is the empty text
NamelessTool ==
    [is_tool |-> TRUE, name |-> "", description |-> <<"nameless">>, parameters |-> <<>>]

\* an implementation of BaseTool that overrides to_openai_tool by a method that
\* raises
BrokenTool ==
    [is_tool |-> TRUE, name |-> "broken", description |-> <<"broken">>,
     parameters |-> <<>>,
     to_openai_tool |-> Exception("NotImplementedError", <<"no schema">>)]

\* a faulty to_openai_tool, which C19 rejects: every parameter is listed as
\* required
to_openai_tool_AllRequired(tool) ==
    LET ps == tool.parameters
        d(p) == IF p.enum # <<>>
                THEN [type |-> p.type, description |-> p.description, enum |-> p.enum]
                ELSE [type |-> p.type, description |-> p.description]
    IN  [type |-> "function",
         function |-> [name |-> tool.name,
                       description |-> tool.description,
                       parameters |->
                           [type |-> "object",
                            properties |->
                                [n \in {ps[i].name : i \in 1..Len(ps)} |->
                                    d(ps[CHOOSE i \in 1..Len(ps) : ps[i].name = n])],
                            required |-> [i \in 1..Len(ps) |-> ps[i].name]]]]

\* BaseTool.to_openai_tool: properties is a dict keyed by parameter name (a later
\* parameter of the same name replaces an earlier one), required a list
to_openai_tool(tool) ==
    LET ps == tool.parameters
        names == {ps[i].name : i \in 1..Len(ps)}
        last(n) == CHOOSE i \in 1..Len(ps) :
                       /\ ps[i].name = n
                       /\ \A j \in 1..Len(ps) : ps[j].name = n => j <= i
        d(p) == IF p.enum # <<>>
                THEN [type |-> p.type, description |-> p.description, enum |-> p.enum]
                ELSE [type |-> p.type, description |-> p.description]
    IN  [type |-> "function",
         function |-> [name |-> tool.name,
                       description |-> tool.description,
                       parameters |-> [type |-> "object",
                                       properties |-> [n \in names |-> d(ps[last(n)])],
                                       required |-> RequiredNames(ps)]]]

(***************************************************************************)
(* Tool registry (tools/registry.py).  The dict _tools is a sequence of    *)
(* tools with pairwise different names, in insertion order.                *)
(***************************************************************************)
\* ToolRegistry.__init__
ToolRegistry == [_tools |-> <<>>, _tool_errors |-> <<>>]

\* list(self._tools.keys())
list_tools(reg) == [i \in 1..Len(reg._tools) |-> reg._tools[i].name]

\* name in self._tools
Registered(reg, name) == \E i \in 1..Len(reg._tools) : reg._tools[i].name = name

\* a faulty register, which C15 rejects: a registered name is deleted and
\* inserted again, so that it moves to the end
register_Reinserts(reg, tool) ==
    LET Others(t) == t.name # tool.name
    IN  IF ~tool.is_tool
        THEN [reg EXCEPT !._tool_errors =
                  Append(@, <<"Failed to register tool: ", "Tool must inherit from BaseTool">>)]
        ELSE IF tool.name = ""
        THEN [reg EXCEPT !._tool_errors =
                  Append(@, <<"Failed to register tool: ", "Tool must have a valid name">>)]
        ELSE [reg EXCEPT !._tools = Append(SelectSeq(@, Others), tool)]

\* a faulty register, which C16 rejects: the name is not looked at
register_NoNameCheck(reg, tool) ==
    IF ~tool.is_tool
    THEN [reg EXCEPT !._tool_errors =
              Append(@, <<"Failed to register tool: ", "Tool must inherit from BaseTool">>)]
    ELSE IF \E i \in 1..Len(reg._tools) : reg._tools[i].name = tool.name
    THEN [reg EXCEPT !._tools =
              [i \in 1..Len(@) |-> IF @[i].name = tool.name THEN tool ELSE @[i]]]
    ELSE [reg EXCEPT !._tools = Append(@, tool)]

\* ToolRegistry.register: never raises, an invalid tool is recorded in _tool_errors
register(reg, tool) ==
    IF ~tool.is_tool
    THEN [reg EXCEPT !._tool_errors =
              Append(@, <<"Failed to register tool: ", "Tool must inherit from BaseTool">>)]
    ELSE IF tool.name = ""
    THEN [reg EXCEPT !._tool_errors =
              Append(@, <<"Failed to register tool: ", "Tool must have a valid name">>)]
    ELSE IF Registered(reg, tool.name)
    THEN [reg EXCEPT !._tools =
              [i \in 1..Len(@) |-> IF @[i].name = tool.name THEN tool ELSE @[i]]]
    ELSE [reg EXCEPT !._tools = Append(@, tool)]

\* a faulty get_tool, which C17 rejects: the error does not list the registered
\* names
get_tool_NoNames(reg, name) ==
    IF \A i \in 1..Len(reg._tools) : reg._tools[i].name # name
    THEN Raise(Exception("ValueError", <<"Tool '", name, "' not found.">>))
    ELSE Return(reg._tools[CHOOSE i \in 1..Len(reg._tools) : reg._tools[i].name = name])

\* ToolRegistry.get_tool: the tool, or ValueError naming the tool and the registered names
get_tool(reg, name) ==
    IF ~Registered(reg, name)
    THEN Raise(Exception("ValueError",
               <<"Tool '", name, "' not found. Available tools: ">>
                   \o Join(list_tools(reg), ", ")))
    ELSE Return(reg._tools[CHOOSE i \in 1..Len(reg._tools) : reg._tools[i].name = name])

\* tool.to_openai_tool(): the method of BaseTool, or the override of the tool
bound_to_openai_tool(tool) ==
    IF "to_openai_tool" \in DOMAIN tool
    THEN Raise(tool.to_openai_tool)
    ELSE Return(to_openai_tool(tool))

\* a faulty get_openai_tools, which C20 rejects: one failing conversion discards
\* the whole list
get_openai_tools_Aborts(reg) ==
    IF \E i \in 1..Len(reg._tools) : "to_openai_tool" \in DOMAIN reg._tools[i]
    THEN <<>>
    ELSE [i \in 1..Len(reg._tools) |-> to_openai_tool(reg._tools[i])]

\* the loop of get_openai_tools over self._tools.values(): a tool whose
\* conversion raises is left out
RECURSIVE ConvertEach(_)
ConvertEach(tools) ==
    IF Len(tools) = 0 THEN <<>>
    ELSE LET converted == bound_to_openai_tool(tools[1])
         IN  (IF converted.raised THEN <<>> ELSE <<converted.value>>)
                 \o ConvertEach(Tail(tools))

\* ToolRegistry.get_openai_tools
get_openai_tools(reg) == ConvertEach(reg._tools)

\* ToolRegistry.get_registry_stats
get_registry_stats(reg) ==
    [total_tools |-> Len(reg._tools), tool_names |-> list_tools(reg),
     errors |-> Len(reg._tool_errors), error_messages |-> reg._tool_errors]

\* a faulty execute_tool, which C4 rejects: the lookup gives None for an unknown
\* name and reading its parameters fails
execute_tool_NoneForUnknown(reg, name, kwargs, outcome) ==
    LET got == get_tool(reg, name)
        missing_params == NotIn(RequiredNames(got.value.parameters), kwargs)
    IN  IF got.raised
        THEN [raised |-> FALSE,
              result |-> <<"Error: ", "'NoneType' object has no attribute 'parameters'">>,
              executed |-> 0]
        ELSE IF missing_params # <<>>
        THEN [raised |-> FALSE,
              result |-> <<"Error: ", "Missing required parameters: ">>
                             \o Join(missing_params, ", "),
              executed |-> 0]
        ELSE IF outcome.raised
        THEN [raised |-> FALSE, result |-> <<"Error: ">> \o outcome.exc.msg, executed |-> 1]
        ELSE [raised |-> FALSE, result |-> outcome.value, executed |-> 1]

\* a faulty execute_tool, which C7 rejects: no except clause around tool.execute
execute_tool_Propagates(reg, name, kwargs, outcome) ==
    LET got == get_tool(reg, name)
        missing_params == NotIn(RequiredNames(got.value.parameters), kwargs)
    IN  IF got.raised
        THEN [raised |-> FALSE, result |-> <<"Error: ">> \o got.exc.msg, executed |-> 0]
        ELSE IF missing_params # <<>>
        THEN [raised |-> FALSE,
              result |-> <<"Error: ", "Missing required parameters: ">>
                             \o Join(missing_params, ", "),
              executed |-> 0]
        ELSE IF outcome.raised
        THEN [raised |-> TRUE, exc |-> outcome.exc, executed |-> 1]
        ELSE [raised |-> FALSE, result |-> outcome.value, executed |-> 1]

\* ToolRegistry.execute_tool(name, **kwargs).  kwargs is the set of supplied
\* keyword names; outcome is what tool.execute(**kwargs) does if it is called
\* (Return(text) or Raise(exception)).  The except clause turns every exception
\* into a returned text, so raised is FALSE; executed counts the calls of
\* tool.execute.
execute_tool(reg, name, kwargs, outcome) ==
    LET got == get_tool(reg, name)
        tool == got.value
        required_params == RequiredNames(tool.parameters)
        missing_params == NotIn(required_params, kwargs)
    IN  IF got.raised
        THEN [raised |-> FALSE, result |-> <<"Error: ">> \o got.exc.msg, executed |-> 0]
        ELSE IF missing_params # <<>>
        THEN [raised |-> FALSE,
              result |-> <<"Error: ", "Missing required parameters: ">>
                             \o Join(missing_params, ", "),
              executed |-> 0]
        ELSE IF outcome.raised
        THEN [raised |-> FALSE, result |-> <<"Error: ">> \o outcome.exc.msg, executed |-> 1]
        ELSE [raised |-> FALSE, result |-> outcome.value, executed |-> 1]

(***************************************************************************)
(* Discovery.  The directory tools/available is a sequence of files; each  *)
(* file imports (to the classes dir(mod) lists) or raises, and each class  *)
(* instantiates to a tool or raises.                                       *)
(***************************************************************************)
ToolFile(name, size, module) == [name |-> name, size |-> size, module |-> module]

ToolClass(attr_name, instance) == [attr_name |-> attr_name, instance |-> instance]

\* the directory the model scans
ToolsDir ==
    [exists |-> TRUE,
     files |-> <<ToolFile(<<"__", "init__.py">>, 1, Return(<<>>)),
                 ToolFile(<<"calculator.py">>, 1,
                          Return(<<ToolClass("CalculatorTool", Return(CalculatorTool))>>)),
                 ToolFile(<<"pair.py">>, 1,
                          Return(<<ToolClass("PairTool", Return(PairTool))>>)),
                 ToolFile(<<"weather_tool.py">>, 1,
                          Return(<<ToolClass("WeatherTool", Return(WeatherTool))>>))>>]

\* the inner loop of auto_discover_tools over the classes of one module;
\* st is [reg, tools_found, errors]
RECURSIVE DiscoverClasses(_, _, _)
DiscoverClasses(st, file, classes) ==
    IF Len(classes) = 0 THEN st
    ELSE LET c == classes[1]
             st1 == IF c.instance.raised
                    THEN [st EXCEPT !.errors =
                             Append(@, <<"Failed to register ", c.attr_name, " from ">>
                                        \o file.name \o <<": ">> \o c.instance.exc.msg)]
                    ELSE [st EXCEPT !.reg = register(@, c.instance.value),
                                    !.tools_found = @ + 1]
         IN  DiscoverClasses(st1, file, Tail(classes))

\* a faulty loop over the files, which C18 rejects: one try block around the
\* whole loop, so that the first file failing to load ends the scan
RECURSIVE DiscoverFiles_StopsAtFailure(_, _)
DiscoverFiles_StopsAtFailure(st, files) ==
    IF Len(files) = 0 THEN st
    ELSE LET f == files[1]
         IN  IF f.name[1] = "__" \/ f.size = 0
             THEN DiscoverFiles_StopsAtFailure(st, Tail(files))
             ELSE IF f.module.raised
             THEN [st EXCEPT !.errors =
                      Append(@, <<"Error loading module ">> \o f.name
                                 \o <<": ">> \o f.module.exc.msg)]
             ELSE DiscoverFiles_StopsAtFailure(DiscoverClasses(st, f, f.module.value),
                                               Tail(files))

\* the loop of auto_discover_tools over the files
RECURSIVE DiscoverFiles(_, _)
DiscoverFiles(st, files) ==
    IF Len(files) = 0 THEN st
    ELSE LET f == files[1]
             st1 == IF f.name[1] = "__" THEN st
                    ELSE IF f.size = 0 THEN st
                    ELSE IF f.module.raised
                    THEN [st EXCEPT !.errors =
                             Append(@, <<"Error loading module ">> \o f.name
                                        \o <<": ">> \o f.module.exc.msg)]
                    ELSE DiscoverClasses(st, f, f.module.value)
         IN  DiscoverFiles(st1, Tail(files))

\* ToolRegistry.auto_discover_tools: the registry afterwards, with the locals
\* tools_found and errors
auto_discover_tools(reg, dir) ==
    IF ~dir.exists
    THEN [reg |-> reg, tools_found |-> 0, errors |-> <<>>]
    ELSE DiscoverFiles([reg |-> reg, tools_found |-> 0, errors |-> <<>>], dir.files)

(***************************************************************************)
(* The environment of a turn: the user, the model provider, the tools.     *)
(***************************************************************************)
\* Config, as ChatBot reads it
config ==
    [system_prompt |-> <<"You are a helpful assistant.">>, model |-> "gpt-4o-mini"]

\* what the user may type
UserMessages == {<<"what is 2+2 using calculator">>}

\* the text of a model response: a text, the empty text, or None
ModelTexts == {None, <<>>, <<"4">>}

\* the exception a failing model call raises
ModelCallError == Exception("APIConnectionError", <<"Connection error.">>)

\* the raw argument payload of a tool call: text that is no JSON, a JSON array,
\* or a JSON object with the given keys
RawArguments ==
    {[syntax |-> "invalid", keys |-> {}], [syntax |-> "array", keys |-> {}]}
        \cup {[syntax |-> "object", keys |-> K] : K \in SUBSET {"a", "b"}}

\* the (tool name, raw arguments) pairs the model may request
CallMenu ==
    {[name |-> "pair", arguments |-> r] : r \in RawArguments}
        \cup {[name |-> "teleport", arguments |-> r] :
                 r \in {[syntax |-> "invalid", keys |-> {}],
                        [syntax |-> "object", keys |-> {}]}}

\* what tool.execute(**kwargs) may do once called
ExecuteOutcomes ==
    {Return(<<"Result: 4">>), Raise(Exception("TypeError", <<"unexpected keyword argument">>))}

\* the tool_calls of a response: k requests from the menu, with ids first, first+1, ...
ToolCallLists(first, k) ==
    {[i \in 1..k |-> [id |-> first + i - 1,
                      function |-> [name |-> picks[i].name,
                                    arguments |-> picks[i].arguments]]] :
        picks \in [1..k -> CallMenu]}

\* json.loads(arguments)
json_loads(arguments) ==
    IF arguments.syntax = "invalid"
    THEN Raise(Exception("JSONDecodeError", <<"Expecting value: line 1 column 1 (char 0)">>))
    ELSE Return([type |-> IF arguments.syntax = "object" THEN "dict" ELSE "list",
                 keys |-> arguments.keys])

\* format_tool_call(name, args): (args or {}).items() raises on a list
format_tool_call(name, args) ==
    IF args.type # "dict"
    THEN Raise(Exception("AttributeError", <<"'list' object has no attribute 'items'">>))
    ELSE Return(None)

(***************************************************************************)
(* ChatBot (chatbot/bot.py).                                               *)
(***************************************************************************)
SystemMessage == [role |-> "system", content |-> config.system_prompt]

\* no model response yet
Pending == [pending |-> TRUE]

\* the tool-role message answering a tool call
ToolMessage(tool_call, content) ==
    [tool_call_id |-> tool_call.id, role |-> "tool",
     name |-> tool_call.function.name, content |-> content]

\* the assistant-role message recording one tool call
AssistantCallMessage(tool_call) ==
    [role |-> "assistant", content |-> None,
     tool_calls |-> <<[id |-> tool_call.id, type |-> "function",
                       function |-> [name |-> tool_call.function.name,
                                     arguments |-> tool_call.function.arguments]]>>]

\* a faulty except clause, which C1 rejects: the error is reported and nothing
\* is appended
ExceptBranch_NoResult(tool_call, e, dispatched) ==
    [propagates |-> FALSE, appended |-> <<>>, results |-> <<>>, dispatched |-> dispatched]

\* a faulty except clause, which C6 rejects: the exception leaves the loop
ExceptBranch_Propagates(tool_call, e, dispatched) ==
    [propagates |-> TRUE, exc |-> e, appended |-> <<>>, results |-> <<>>,
     dispatched |-> dispatched]

\* the except clause of the loop body: only a tool-role message, in tool_results
ExceptBranch(tool_call, e, dispatched) ==
    [propagates |-> FALSE,
     appended |-> <<>>,
     results |-> <<ToolMessage(tool_call, <<"Error: ">> \o e.msg)>>,
     dispatched |-> dispatched]

\* the end of the try block of the loop body: the assistant message goes to the
\* transcript at once, the tool-role message to tool_results
TryBranch(tool_call, result, dispatched) ==
    [propagates |-> FALSE,
     appended |-> <<AssistantCallMessage(tool_call)>>,
     results |-> <<ToolMessage(tool_call, result)>>,
     dispatched |-> dispatched]

\* the body of the for loop of _handle_tool_calls for one tool_call: the messages
\* appended to conversation_history, the entries appended to tool_results, the
\* dispatch made (execute_tool called or not) and whether an exception leaves
\* the loop (except Exception catches them all: none does)
HandleOne(reg, tool_call, outcome) ==
    LET function_name == tool_call.function.name
        parsed == json_loads(tool_call.function.arguments)
        shown == format_tool_call(function_name, parsed.value)
        done == execute_tool(reg, function_name, parsed.value.keys, outcome)
        dispatch == [id |-> tool_call.id, name |-> function_name,
                     kwargs |-> parsed.value.keys, raised |-> done.raised,
                     executed |-> done.executed,
                     execute_raised |-> done.executed = 1 /\ outcome.raised,
                     result |-> IF done.raised THEN done.exc.msg ELSE done.result]
    IN  IF parsed.raised THEN ExceptBranch(tool_call, parsed.exc, <<>>)
        ELSE IF shown.raised THEN ExceptBranch(tool_call, shown.exc, <<>>)
        ELSE IF done.raised THEN ExceptBranch(tool_call, done.exc, <<dispatch>>)
        ELSE TryBranch(tool_call, done.result, <<dispatch>>)

\* faulty arguments of a model call, which C14 rejects: the list of schemas is
\* passed on even when it is empty
Request_AlwaysTools(messages, tools) ==
    [messages |-> messages, tools |-> SomeList(tools), tool_choice |-> <<"auto">>,
     response |-> Pending]

\* the arguments of a model call
Request(messages, tools) ==
    [messages |-> messages,
     tools |-> IF tools # <<>> THEN SomeList(tools) ELSE NoList,
     tool_choice |-> IF tools # <<>> THEN <<"auto">> ELSE None,
     response |-> Pending]

\* no call of the registry's interface yet
NoCall == [op |-> "none"]

\* the ChatBot is built and driven by an embedding program (a test, a library
\* user), not by main()
Embedded == [at |-> "embedded"]

\* the disk at the start: the working directory (the empty path) and a
\* directory data in it, no files
Disk == [dirs |-> {<<>>, <<"data">>}, files |-> <<>>]

Init ==
    /\ conversation_history = <<SystemMessage>>
    /\ message_count = 0
    /\ tool_registry = ToolRegistry
    /\ pc = "idle"
    /\ tool_calls = <<>>
    /\ idx = 1
    /\ tool_results = <<>>
    /\ model_calls = <<>>
    /\ dispatch_log = <<>>
    /\ ret = Return(None)
    /\ last_op = "__init__"
    /\ turn_base = 1
    /\ load = 0
    /\ registry_call = NoCall
    /\ process = Embedded
    /\ filesystem = Disk
    /\ file_calls = <<>>

\* chat, up to the first model call being sent
ChatBegin(message) ==
    /\ pc = "idle"
    /\ load < MaxLoad
    /\ load' = load + 1
    /\ message_count' = message_count + 1
    /\ turn_base' = Len(conversation_history)
    /\ conversation_history' =
           Append(conversation_history, [role |-> "user", content |-> message])
    /\ model_calls' = <<Request(conversation_history', get_openai_tools(tool_registry))>>
    /\ tool_calls' = <<>>
    /\ idx' = 1
    /\ tool_results' = <<>>
    /\ dispatch_log' = <<>>
    /\ pc' = "call1"
    /\ UNCHANGED <<tool_registry, ret, last_op, registry_call,
                   process, filesystem, file_calls>>

\* a faulty except clause of chat, which C8 rejects: the turn's messages are
\* taken back out of the transcript
ModelCallFails_RollsBack ==
    /\ pc \in {"call1", "call2"}
    /\ model_calls' = [model_calls EXCEPT ![Len(model_calls)].response = Raise(ModelCallError)]
    /\ conversation_history' = SubSeq(conversation_history, 1, turn_base)
    /\ ret' = Return(<<"Sorry, I encountered an error: ">> \o ModelCallError.msg)
    /\ pc' = "idle"
    /\ last_op' = "chat"
    /\ UNCHANGED <<message_count, tool_registry, tool_calls, idx,
                   tool_results, dispatch_log, turn_base, load, registry_call,
                   process, filesystem, file_calls>>

\* a model call raises: the except clause of chat
ModelCallFails ==
    /\ pc \in {"call1", "call2"}
    /\ model_calls' = [model_calls EXCEPT ![Len(model_calls)].response = Raise(ModelCallError)]
    /\ ret' = Return(<<"Sorry, I encountered an error: ">> \o ModelCallError.msg)
    /\ pc' = "idle"
    /\ last_op' = "chat"
    /\ UNCHANGED <<conversation_history, message_count, tool_registry, tool_calls, idx,
                   tool_results, dispatch_log, turn_base, load, registry_call,
                   process, filesystem, file_calls>>

\* a faulty end of chat, which C11 rejects: the transcript is kept to a window,
\* the oldest message after the system message is dropped for the new one
ModelAnswers_Trims(content) ==
    /\ pc \in {"call1", "call2"}
    /\ model_calls' = [model_calls EXCEPT ![Len(model_calls)].response =
                           Return([content |-> content, tool_calls |-> <<>>])]
    /\ conversation_history' =
           <<conversation_history[1]>> \o Tail(Tail(conversation_history))
               \o <<[role |-> "assistant", content |-> content]>>
    /\ ret' = Return(IF Truthy(content) THEN content
                     ELSE <<"I don't have a response for that.">>)
    /\ pc' = "idle"
    /\ last_op' = "chat"
    /\ UNCHANGED <<message_count, tool_registry, tool_calls, idx, tool_results, dispatch_log,
                   turn_base, load, registry_call,
                   process, filesystem, file_calls>>

\* a faulty end of chat, which C12 rejects: the content is returned as it is
ModelAnswers_NoPlaceholder(content) ==
    /\ pc \in {"call1", "call2"}
    /\ model_calls' = [model_calls EXCEPT ![Len(model_calls)].response =
                           Return([content |-> content, tool_calls |-> <<>>])]
    /\ conversation_history' =
           Append(conversation_history, [role |-> "assistant", content |-> content])
    /\ ret' = Return(content)
    /\ pc' = "idle"
    /\ last_op' = "chat"
    /\ UNCHANGED <<message_count, tool_registry, tool_calls, idx, tool_results, dispatch_log,
                   turn_base, load, registry_call,
                   process, filesystem, file_calls>>

\* a model call returns a message without tool calls (the first call), or any
\* message (the second call, whose tool_calls are not looked at)
ModelAnswers(content) ==
    /\ pc \in {"call1", "call2"}
    /\ model_calls' = [model_calls EXCEPT ![Len(model_calls)].response =
                           Return([content |-> content, tool_calls |-> <<>>])]
    /\ conversation_history' =
           Append(conversation_history, [role |-> "assistant", content |-> content])
    /\ ret' = Return(IF Truthy(content) THEN content
                     ELSE <<"I don't have a response for that.">>)
    /\ pc' = "idle"
    /\ last_op' = "chat"
    /\ UNCHANGED <<message_count, tool_registry, tool_calls, idx, tool_results, dispatch_log,
                   turn_base, load, registry_call,
                   process, filesystem, file_calls>>

\* the tool_calls a second response may carry: one well-formed call of "pair"
LateToolCalls(first) ==
    {<<[id |-> first,
        function |-> [name |-> "pair",
                      arguments |-> [syntax |-> "object", keys |-> {"a", "b"}]]]>>}

\* the second model call returns a message that carries tool calls: chat reads
\* only its content
ModelAnswersWithToolCalls(content, requested) ==
    /\ pc = "call2"
    /\ model_calls' = [model_calls EXCEPT ![2].response =
                           Return([content |-> content, tool_calls |-> requested])]
    /\ conversation_history' =
           Append(conversation_history, [role |-> "assistant", content |-> content])
    /\ ret' = Return(IF Truthy(content) THEN content
                     ELSE <<"I don't have a response for that.">>)
    /\ pc' = "idle"
    /\ last_op' = "chat"
    /\ UNCHANGED <<message_count, tool_registry, tool_calls, idx, tool_results, dispatch_log,
                   turn_base, load, registry_call,
                   process, filesystem, file_calls>>

\* the first model call returns a message with tool calls
ModelRequestsTools(requested) ==
    /\ pc = "call1"
    /\ model_calls' = [model_calls EXCEPT ![1].response =
                           Return([content |-> None, tool_calls |-> requested])]
    /\ tool_calls' = requested
    /\ load' = load + Len(requested)
    /\ idx' = 1
    /\ tool_results' = <<>>
    /\ pc' = "tools"
    /\ UNCHANGED <<conversation_history, message_count, tool_registry, dispatch_log, ret,
                   last_op, turn_base, registry_call,
                   process, filesystem, file_calls>>

\* a faulty loop body, which C22 rejects: a dispatch that ends in an error text
\* is also recorded in the registry's error list
HandleToolCall_RecordsErrors(outcome) ==
    /\ pc = "tools"
    /\ idx <= Len(tool_calls)
    /\ LET h == HandleOne(tool_registry, tool_calls[idx], outcome)
           failed == /\ h.dispatched # <<>>
                     /\ h.dispatched[1].result # <<>>
                     /\ h.dispatched[1].result[1] = "Error: "
       IN  /\ conversation_history' = conversation_history \o h.appended
           /\ tool_results' = tool_results \o h.results
           /\ dispatch_log' = dispatch_log \o h.dispatched
           /\ idx' = idx + 1
           /\ tool_registry' =
                  IF failed
                  THEN [tool_registry EXCEPT !._tool_errors =
                            Append(@, h.dispatched[1].result)]
                  ELSE tool_registry
    /\ UNCHANGED <<message_count, pc, ret, last_op, tool_calls, model_calls, turn_base, load,
                   registry_call,
                   process, filesystem, file_calls>>

\* one iteration of the for loop of _handle_tool_calls; an exception leaving
\* it would reach the except clause of chat
HandleToolCall(outcome) ==
    /\ pc = "tools"
    /\ idx <= Len(tool_calls)
    /\ LET h == HandleOne(tool_registry, tool_calls[idx], outcome)
       IN  IF h.propagates
           THEN /\ ret' = Return(<<"Sorry, I encountered an error: ">> \o h.exc.msg)
                /\ pc' = "idle"
                /\ last_op' = "chat"
                /\ UNCHANGED <<conversation_history, tool_results, dispatch_log, idx>>
           ELSE /\ conversation_history' = conversation_history \o h.appended
                /\ tool_results' = tool_results \o h.results
                /\ dispatch_log' = dispatch_log \o h.dispatched
                /\ idx' = idx + 1
                /\ UNCHANGED <<pc, ret, last_op>>
    /\ UNCHANGED <<message_count, tool_registry, tool_calls, model_calls, turn_base, load,
                   registry_call,
                   process, filesystem, file_calls>>

\* a faulty second call, which C13 rejects: the tool schemas are sent again
ToolCallsDone_OffersTools ==
    /\ pc = "tools"
    /\ idx > Len(tool_calls)
    /\ conversation_history' = conversation_history \o tool_results
    /\ model_calls' = Append(model_calls,
                             [messages |-> conversation_history',
                              tools |-> SomeList([i \in 1..Len(tool_registry._tools) |->
                                            to_openai_tool(tool_registry._tools[i])]),
                              tool_choice |-> <<"auto">>,
                              response |-> Pending])
    /\ pc' = "call2"
    /\ UNCHANGED <<message_count, tool_registry, tool_calls, idx, tool_results, dispatch_log,
                   ret, last_op, turn_base, load, registry_call,
                   process, filesystem, file_calls>>

\* a faulty return of _handle_tool_calls, which C23 rejects: the second model
\* call is sent as soon as the first requested call is processed
ToolCallsDone_Early ==
    /\ pc = "tools"
    /\ idx > 1
    /\ conversation_history' = conversation_history \o tool_results
    /\ model_calls' = Append(model_calls, Request(conversation_history', <<>>))
    /\ pc' = "call2"
    /\ UNCHANGED <<message_count, tool_registry, tool_calls, idx, tool_results, dispatch_log,
                   ret, last_op, turn_base, load, registry_call,
                   process, filesystem, file_calls>>

\* _handle_tool_calls returns: chat extends the transcript with tool_results and
\* sends the second model call, without tools
ToolCallsDone ==
    /\ pc = "tools"
    /\ idx > Len(tool_calls)
    /\ conversation_history' = conversation_history \o tool_results
    /\ model_calls' = Append(model_calls, Request(conversation_history', <<>>))
    /\ pc' = "call2"
    /\ UNCHANGED <<message_count, tool_registry, tool_calls, idx, tool_results, dispatch_log,
                   ret, last_op, turn_base, load, registry_call,
                   process, filesystem, file_calls>>

\* a faulty clear_history, which C10 rejects: the history is emptied, the system
\* message with it
clear_history_Empty ==
    /\ pc = "idle"
    /\ conversation_history' = <<>>
    /\ message_count' = 0
    /\ last_op' = "clear_history"
    /\ ret' = Return(None)
    /\ tool_calls' = <<>>
    /\ idx' = 1
    /\ tool_results' = <<>>
    /\ model_calls' = <<>>
    /\ dispatch_log' = <<>>
    /\ turn_base' = 1
    /\ UNCHANGED <<tool_registry, pc, load, registry_call,
                   process, filesystem, file_calls>>

\* a faulty clear_history, which C29 rejects: the transcript is cut back to the
\* system message but the counter keeps its value
clear_history_KeepsCount ==
    /\ pc = "idle"
    /\ conversation_history' = <<SystemMessage>>
    /\ message_count' = message_count
    /\ last_op' = "clear_history"
    /\ ret' = Return(None)
    /\ tool_calls' = <<>>
    /\ idx' = 1
    /\ tool_results' = <<>>
    /\ model_calls' = <<>>
    /\ dispatch_log' = <<>>
    /\ turn_base' = 1
    /\ UNCHANGED <<tool_registry, pc, load, registry_call,
                   process, filesystem, file_calls>>

\* ChatBot.clear_history
clear_history ==
    /\ pc = "idle"
    /\ conversation_history' = <<SystemMessage>>
    /\ message_count' = 0
    /\ last_op' = "clear_history"
    /\ ret' = Return(None)
    /\ tool_calls' = <<>>
    /\ idx' = 1
    /\ tool_results' = <<>>
    /\ model_calls' = <<>>
    /\ dispatch_log' = <<>>
    /\ turn_base' = 1
    /\ UNCHANGED <<tool_registry, pc, load, registry_call,
                   process, filesystem, file_calls>>

\* ChatBot.auto_discover_tools, called where run calls it: at startup, before
\* the first input is read
discover_tools ==
    /\ pc = "idle"
    /\ last_op = "__init__"
    /\ tool_registry' = auto_discover_tools(tool_registry, ToolsDir).reg
    /\ last_op' = "auto_discover_tools"
    /\ ret' = Return(None)
    /\ tool_calls' = <<>>
    /\ idx' = 1
    /\ tool_results' = <<>>
    /\ model_calls' = <<>>
    /\ dispatch_log' = <<>>
    /\ turn_base' = Len(conversation_history)
    /\ UNCHANGED <<conversation_history, message_count, pc, load, registry_call,
                   process, filesystem, file_calls>>

\* ChatBot.reset_chatbot: clear_history, a new registry, discovery
reset_chatbot ==
    /\ pc = "idle"
    /\ conversation_history' = <<SystemMessage>>
    /\ message_count' = 0
    /\ tool_registry' = auto_discover_tools(ToolRegistry, ToolsDir).reg
    /\ last_op' = "reset_chatbot"
    /\ ret' = Return(None)
    /\ tool_calls' = <<>>
    /\ idx' = 1
    /\ tool_results' = <<>>
    /\ model_calls' = <<>>
    /\ dispatch_log' = <<>>
    /\ turn_base' = 1
    /\ UNCHANGED <<pc, load, registry_call,
                   process, filesystem, file_calls>>

Next ==
    \/ \E message \in UserMessages : ChatBegin(message)
    \/ ModelCallFails
    \/ \E content \in ModelTexts : ModelAnswers(content)
    \/ \E k \in 1..(MaxLoad - load) :
           \E requested \in ToolCallLists(load + 1, k) : ModelRequestsTools(requested)
    \/ \E requested \in LateToolCalls(load + 1) : ModelAnswersWithToolCalls(None, requested)
    \/ \E outcome \in ExecuteOutcomes : HandleToolCall(outcome)
    \/ ToolCallsDone
    \/ clear_history
    \/ discover_tools
    \/ reset_chatbot

Spec == Init /\ [][Next]_vars

(***************************************************************************)
(* The registry used directly: the embedding program (the CLI, a test)     *)
(* registers tools, looks them up, converts them and scans a directory     *)
(* into the fresh registry; the first turn is then followed up to its      *)
(* first model call.                                                       *)
(***************************************************************************)
\* the tools handed to register
RegisteredObjects ==
    {CalculatorTool, CalculatorToolV2, WeatherTool, NotATool, NamelessTool, BrokenTool}

\* the names looked up
LookupNames == {"calculator", "weather", "broken", "teleport"}

\* the file with its import failing
FailsToLoad(file) ==
    ToolFile(file.name, file.size,
             Raise(Exception("ModuleNotFoundError", <<"No module named 'requests'">>)))

\* the file with its first class failing to instantiate
FailsToInstantiate(file) ==
    ToolFile(file.name, file.size,
             Return(<<ToolClass(file.module.value[1].attr_name,
                                Raise(Exception("TypeError",
                                                <<"Can't instantiate abstract class">>)))>>))

\* the three tool files of ToolsDir, the p-th failing in the given way
DirFailingAt(p, way) ==
    [exists |-> TRUE,
     files |-> [i \in 1..3 |->
                   IF i # p THEN ToolsDir.files[i + 1]
                   ELSE IF way = "load" THEN FailsToLoad(ToolsDir.files[i + 1])
                   ELSE FailsToInstantiate(ToolsDir.files[i + 1])]]

\* a directory whose second file defines a tool class with the empty name
NamelessDir ==
    [exists |-> TRUE,
     files |-> <<ToolsDir.files[2],
                 ToolFile(<<"nameless.py">>, 1,
                          Return(<<ToolClass("NamelessTool", Return(NamelessTool))>>)),
                 ToolsDir.files[4]>>]

\* the directories scanned
ScannedDirs ==
    {ToolsDir, [exists |-> FALSE, files |-> <<>>], NamelessDir}
        \cup {DirFailingAt(p, way) : p \in 1..3, way \in {"load", "instantiate"}}

\* the chat variables a registry call leaves alone
ChatUnchanged ==
    UNCHANGED <<conversation_history, message_count, pc, tool_calls, idx, tool_results,
                model_calls, dispatch_log, ret, turn_base, load,
                process, filesystem, file_calls>>

\* ChatBot.register_tool(tool): tool_registry.register(tool)
Call_register(tool) ==
    /\ pc = "idle"
    /\ Len(tool_registry._tool_errors) < MaxErrors
    /\ tool_registry' = register(tool_registry, tool)
    /\ registry_call' = [op |-> "register", tool |-> tool, before |-> tool_registry]
    /\ last_op' = "register_tool"
    /\ ChatUnchanged

\* tool_registry.get_tool(name)
Call_get_tool(name) ==
    /\ pc = "idle"
    /\ registry_call' = [op |-> "get_tool", name |-> name, before |-> tool_registry,
                         result |-> get_tool(tool_registry, name)]
    /\ last_op' = "get_tool"
    /\ UNCHANGED tool_registry
    /\ ChatUnchanged

\* tool_registry.get_openai_tools()
Call_get_openai_tools ==
    /\ pc = "idle"
    /\ registry_call' = [op |-> "get_openai_tools", before |-> tool_registry,
                         result |-> Return(get_openai_tools(tool_registry))]
    /\ last_op' = "get_openai_tools"
    /\ UNCHANGED tool_registry
    /\ ChatUnchanged

\* the parameters a declared tool draws from, of pairwise different names
ParameterPool ==
    {ToolParameter("x", "number", <<"x">>, TRUE, <<>>),
     ToolParameter("mode", "string", <<"mode">>, FALSE, <<"fast", "slow">>),
     ToolParameter("y", "string", <<"y">>, TRUE, <<"a">>),
     ToolParameter("z", "boolean", <<"z">>, FALSE, <<>>)}

\* the parameter lists of at most MaxParameters different parameters
ParameterLists ==
    UNION {{ps \in [1..n -> ParameterPool] : \A i, j \in 1..n : ps[i] = ps[j] => i = j} :
              n \in 0..MaxParameters}

\* the tools converted: those of the model and one for each parameter list
DeclaredTools ==
    {CalculatorTool, CalculatorToolV2, WeatherTool, PairTool}
        \cup {[is_tool |-> TRUE, name |-> "declared", description |-> <<"declared">>,
               parameters |-> ps] : ps \in ParameterLists}

\* tool.to_openai_tool()
Call_to_openai_tool(tool) ==
    /\ pc = "idle"
    /\ registry_call' = [op |-> "to_openai_tool", tool |-> tool,
                         before |-> tool_registry,
                         result |-> bound_to_openai_tool(tool)]
    /\ last_op' = "to_openai_tool"
    /\ UNCHANGED tool_registry
    /\ ChatUnchanged

\* tool_registry.auto_discover_tools(tools_dir) on the fresh registry, as at
\* startup and in reset_chatbot; tools_found and errors are the locals its
\* summary prints
Call_auto_discover_tools(dir) ==
    /\ pc = "idle"
    /\ tool_registry = ToolRegistry
    /\ LET done == auto_discover_tools(tool_registry, dir)
       IN  /\ tool_registry' = done.reg
           /\ registry_call' = [op |-> "auto_discover_tools", dir |-> dir,
                                before |-> tool_registry,
                                tools_found |-> done.tools_found, errors |-> done.errors]
    /\ last_op' = "auto_discover_tools"
    /\ ChatUnchanged

RegistryNext ==
    \/ \E tool \in RegisteredObjects : Call_register(tool)
    \/ \E name \in LookupNames : Call_get_tool(name)
    \/ Call_get_openai_tools
    \/ \E tool \in DeclaredTools : Call_to_openai_tool(tool)
    \/ \E dir \in ScannedDirs : Call_auto_discover_tools(dir)
    \/ \E message \in UserMessages : message_count = 0 /\ ChatBegin(message)

RegistrySpec == Init /\ [][RegistryNext]_vars

(***************************************************************************)
(* A turn interrupted from outside: KeyboardInterrupt is no Exception, so  *)
(* neither the except clause of _handle_tool_calls nor that of chat        *)
(* catches it; it leaves chat at the statement that was running.           *)
(***************************************************************************)
KeyboardInterrupt == Exception("KeyboardInterrupt", <<>>)

\* the interrupt arrives while a model call is awaited or between two
\* iterations of the loop of _handle_tool_calls: chat is left with what it has
\* appended so far, the local tool_results is lost with the frame
Interrupt ==
    /\ pc \in {"call1", "tools", "call2"}
    /\ pc' = "idle"
    /\ ret' = Raise(KeyboardInterrupt)
    /\ last_op' = "interrupted"
    /\ UNCHANGED <<conversation_history, message_count, tool_registry, tool_calls, idx,
                   tool_results, model_calls, dispatch_log, turn_base, load, registry_call,
                   process, filesystem, file_calls>>

InterruptNext == Next \/ Interrupt

InterruptSpec == Init /\ [][InterruptNext]_vars

(***************************************************************************)
(* FileOperationsTool on a disk. A path is the sequence of its components  *)
(* ("data/notes.txt" is <<"data", "notes.txt">>, "" is <<>>), relative to  *)
(* the working directory; the disk is the set of directories and the files *)
(* with their content. The actions list and info, which only read the      *)
(* disk, are not modelled.                                                 *)
(***************************************************************************)
\* os.path.dirname(path)
dirname(path) == IF Len(path) = 0 THEN <<>> ELSE SubSeq(path, 1, Len(path) - 1)

\* os.path.exists(path)
exists(fs, path) == path \in fs.dirs \/ path \in DOMAIN fs.files

\* the path and the directories above it, the working directory left out
Ancestors(path) == {SubSeq(path, 1, n) : n \in 1..Len(path)}

\* os.makedirs(path, exist_ok=True): the disk afterwards, or the OSError; the
\* empty path is refused
makedirs(fs, path) ==
    IF path = <<>>
    THEN Raise(Exception("FileNotFoundError",
                         <<"[Errno 2] No such file or directory: ''">>))
    ELSE IF \E a \in Ancestors(path) : a \in DOMAIN fs.files
    THEN Raise(Exception("FileExistsError", <<"[Errno 17] File exists: '">> \o path \o <<"'">>))
    ELSE Return([fs EXCEPT !.dirs = @ \cup Ancestors(path)])

\* open(path, "w") and f.write(content): the disk afterwards, or the OSError
open_w(fs, path, content) ==
    IF path \in fs.dirs
    THEN Raise(Exception("IsADirectoryError",
                         <<"[Errno 21] Is a directory: '">> \o path \o <<"'">>))
    ELSE IF dirname(path) \notin fs.dirs
    THEN Raise(Exception("FileNotFoundError",
                         <<"[Errno 2] No such file or directory: '">> \o path \o <<"'">>))
    ELSE Return([fs EXCEPT !.files =
                     [p \in DOMAIN @ \cup {path} |-> IF p = path THEN content ELSE @[p]]])

\* open(path, "r") and f.read(): the content, or the OSError
open_r(fs, path) ==
    IF path \in fs.dirs
    THEN Raise(Exception("IsADirectoryError",
                         <<"[Errno 21] Is a directory: '">> \o path \o <<"'">>))
    ELSE IF path \notin DOMAIN fs.files
    THEN Raise(Exception("FileNotFoundError",
                         <<"[Errno 2] No such file or directory: '">> \o path \o <<"'">>))
    ELSE Return(fs.files[path])

\* the except clause of execute
FileOperationError(e) == <<"Error in file operation: ">> \o e.msg

\* FileOperationsTool.execute(action, filepath, content): the disk afterwards
\* and the text returned
FileOperations_execute(fs, action, filepath, content) ==
    IF action = "read"
    THEN IF ~Truthy(filepath)
         THEN [fs |-> fs, result |-> <<"Error: filepath parameter required for read action">>]
         ELSE IF ~exists(fs, filepath)
         THEN [fs |-> fs,
               result |-> <<"Error: File '">> \o filepath \o <<"' does not exist">>]
         ELSE LET got == open_r(fs, filepath)
              IN  IF got.raised
                  THEN [fs |-> fs, result |-> FileOperationError(got.exc)]
                  ELSE [fs |-> fs,
                        result |-> <<"File content of '">> \o filepath \o <<"':\n">>
                                       \o got.value]
    ELSE IF action = "write"
    THEN IF ~Truthy(filepath) \/ content = None
         THEN [fs |-> fs,
               result |-> <<"Error: filepath and content parameters required for write action">>]
         ELSE LET made == makedirs(fs, dirname(filepath))
              IN  IF made.raised
                  THEN [fs |-> fs, result |-> FileOperationError(made.exc)]
                  ELSE LET written == open_w(made.value, filepath, content)
                       IN  IF written.raised
                           THEN [fs |-> made.value,
                                 result |-> FileOperationError(written.exc)]
                           ELSE [fs |-> written.value,
                                 result |-> <<"Successfully wrote content to '">>
                                                \o filepath \o <<"'">>]
    ELSE IF action = "exists"
    THEN IF ~Truthy(filepath)
         THEN [fs |-> fs, result |-> <<"Error: filepath parameter required for exists action">>]
         ELSE [fs |-> fs,
               result |-> <<"File '">> \o filepath
                              \o <<IF exists(fs, filepath) THEN "' exists"
                                                            ELSE "' does not exist">>]
    ELSE [fs |-> fs, result |-> <<"Error: unknown action '", action, "'">>]

\* the paths the tool is given: a bare file name, a file in the existing
\* directory, a file under directories still to be made, the existing
\* directory itself, the empty text, None
FilePaths ==
    {<<"notes.txt">>, <<"data", "notes.txt">>, <<"new", "sub", "notes.txt">>,
     <<"data">>, <<>>, None}

\* the contents written: a text, the empty text, None (content not given)
FileContents == {<<"hello">>, <<>>, None}

\* the actions asked for, "delete" being unknown to the tool
FileActions == {"read", "write", "exists", "delete"}

\* one call of the tool, as execute_tool makes it; file_calls keeps the call
\* before it and this one
Call_file_operations(action, filepath, content) ==
    /\ pc = "idle"
    /\ action # "write" => content = None
    /\ LET done == FileOperations_execute(filesystem, action, filepath, content)
           call == [action |-> action, filepath |-> filepath, content |-> content,
                    before |-> filesystem, result |-> done.result]
       IN  /\ filesystem' = done.fs
           /\ file_calls' = IF file_calls = <<>> THEN <<call>>
                            ELSE <<file_calls[Len(file_calls)], call>>
    /\ UNCHANGED <<conversation_history, message_count, tool_registry, pc, tool_calls, idx,
                   tool_results, model_calls, dispatch_log, ret, last_op, turn_base, load,
                   registry_call, process>>

FileNext ==
    \E action \in FileActions, filepath \in FilePaths, content \in FileContents :
        Call_file_operations(action, filepath, content)

FileSpec == Init /\ [][FileNext]_vars

(***************************************************************************)
(* The program (main.py, chatbot/config.py): main() reads the environment, *)
(* builds the Config and the ChatBot and hands over to ChatBot.run, the    *)
(* interactive loop. Tool calls inside a turn are the subject of Spec; the *)
(* model here answers a turn with a text or fails.                         *)
(***************************************************************************)
\* the environment variables from_env reads, None for a variable that is not
\* set; OPENAI_MODEL and SYSTEM_PROMPT are not set
Environments ==
    [OPENROUTER_API_KEY : {None, <<>>, <<"or-key">>},
     OPENAI_API_KEY : {None, <<>>, <<"oa-key">>},
     MAX_TOKENS : {None, <<"500">>, <<"abc">>},
     TEMPERATURE : {None, <<"hot">>},
     OPENAI_MODEL : {None},
     SYSTEM_PROMPT : {None}]

\* os.getenv(name, default)
getenv(env, name, default) == IF env[name] = None THEN default ELSE env[name]

\* int(text), for the texts the environment holds
int(text) ==
    IF text = <<"1000">> THEN Return(1000)
    ELSE IF text = <<"500">> THEN Return(500)
    ELSE Raise(Exception("ValueError",
                         <<"invalid literal for int() with base 10: '">> \o text \o <<"'">>))

\* float(text), for the texts the environment holds; 0.7 is kept as its text
float(text) ==
    IF text = <<"0.7">> THEN Return(<<"0.7">>)
    ELSE Raise(Exception("ValueError",
                         <<"could not convert string to float: '">> \o text \o <<"'">>))

\* the base URL of OpenRouter
OpenRouterURL == <<"https://", "openrouter.ai", "/api/v1">>

\* the dataclass Config
Config(api_key, base_url, model, max_tokens, temperature, system_prompt) ==
    [api_key |-> api_key, base_url |-> base_url, model |-> model,
     max_tokens |-> max_tokens, temperature |-> temperature,
     system_prompt |-> system_prompt]

\* a faulty from_env, which C21 rejects: the OpenAI key is looked at first
from_env_PrefersOpenAI(env) ==
    LET or_key == env.OPENROUTER_API_KEY
        oa_key == env.OPENAI_API_KEY
        max_tokens == int(getenv(env, "MAX_TOKENS", <<"1000">>))
        temperature == float(getenv(env, "TEMPERATURE", <<"0.7">>))
        cls(api_key, base_url, model) ==
            IF max_tokens.raised THEN max_tokens
            ELSE IF temperature.raised THEN temperature
            ELSE Return(Config(api_key, base_url, model, max_tokens.value,
                               temperature.value,
                               getenv(env, "SYSTEM_PROMPT", config.system_prompt)))
    IN  IF Truthy(oa_key)
        THEN cls(oa_key, None, getenv(env, "OPENAI_MODEL", <<"gpt-4o-mini">>))
        ELSE IF Truthy(or_key)
        THEN cls(or_key, OpenRouterURL, getenv(env, "OPENAI_MODEL", <<"openai/gpt-4o-mini">>))
        ELSE Raise(Exception("ValueError",
                             <<"Set OPENROUTER_API_KEY or OPENAI_API_KEY in .env">>))

\* Config.from_env: the Config, or the ValueError (no key, or a MAX_TOKENS or
\* TEMPERATURE that int() or float() refuses)
from_env(env) ==
    LET or_key == env.OPENROUTER_API_KEY
        oa_key == env.OPENAI_API_KEY
        max_tokens == int(getenv(env, "MAX_TOKENS", <<"1000">>))
        temperature == float(getenv(env, "TEMPERATURE", <<"0.7">>))
        cls(api_key, base_url, model) ==
            IF max_tokens.raised THEN max_tokens
            ELSE IF temperature.raised THEN temperature
            ELSE Return(Config(api_key, base_url, model, max_tokens.value,
                               temperature.value,
                               getenv(env, "SYSTEM_PROMPT", config.system_prompt)))
    IN  IF Truthy(or_key)
        THEN cls(or_key, OpenRouterURL, getenv(env, "OPENAI_MODEL", <<"openai/gpt-4o-mini">>))
        ELSE IF Truthy(oa_key)
        THEN cls(oa_key, None, getenv(env, "OPENAI_MODEL", <<"gpt-4o-mini">>))
        ELSE Raise(Exception("ValueError",
                             <<"Set OPENROUTER_API_KEY or OPENAI_API_KEY in .env">>))

\* 'openrouter.ai' in base_url: a TypeError when base_url is None
openrouter_in(base_url) ==
    IF base_url = None
    THEN Raise(Exception("TypeError", <<"argument of type 'NoneType' is not iterable">>))
    ELSE Return(Mentions(base_url, "openrouter.ai"))

\* the program before main() has run: no ChatBot exists
MainInit ==
    /\ process \in {[at |-> "main", env |-> env] : env \in Environments}
    /\ conversation_history = <<>>
    /\ message_count = 0
    /\ tool_registry = ToolRegistry
    /\ pc = "idle"
    /\ tool_calls = <<>>
    /\ idx = 1
    /\ tool_results = <<>>
    /\ model_calls = <<>>
    /\ dispatch_log = <<>>
    /\ ret = Return(None)
    /\ last_op = "main"
    /\ turn_base = 0
    /\ load = 0
    /\ registry_call = NoCall
    /\ filesystem = Disk
    /\ file_calls = <<>>

\* main: config = setup_environment(), which catches the error of from_env and
\* returns None; sys.exit(1) if there is no config
setup_environment ==
    /\ process.at = "main"
    /\ LET got == from_env(process.env)
       IN  process' = IF got.raised
                      THEN [at |-> "exited", env |-> process.env, code |-> 1,
                            error |-> got.exc]
                      ELSE [at |-> "configured", env |-> process.env, config |-> got.value]
    /\ last_op' = "setup_environment"
    /\ UNCHANGED <<conversation_history, message_count, tool_registry, pc, tool_calls, idx,
                   tool_results, model_calls, dispatch_log, ret, turn_base, load,
                   registry_call, filesystem, file_calls>>

\* main: bot = create_chatbot(config), that is ChatBot.__init__
create_chatbot ==
    /\ process.at = "configured"
    /\ process' = [at |-> "created", config |-> process.config, run_called |-> FALSE,
                   user_input |-> None, handled |-> FALSE, error |-> None]
    /\ conversation_history' =
           <<[role |-> "system", content |-> process.config.system_prompt]>>
    /\ message_count' = 0
    /\ tool_registry' = ToolRegistry
    /\ turn_base' = 1
    /\ last_op' = "__init__"
    /\ UNCHANGED <<pc, tool_calls, idx, tool_results, model_calls, dispatch_log, ret, load,
                   registry_call, filesystem, file_calls>>

\* main: run_chatbot(bot). The banner is printed first, inside the try block;
\* if it raises, the except clause reports the error and run_chatbot returns
\* without bot.run() being called. Otherwise bot.run() starts: it discovers
\* the tools and enters the loop.
run_chatbot ==
    /\ process.at = "created"
    /\ LET banner == openrouter_in(process.config.base_url)
       IN  IF banner.raised
           THEN /\ process' = [process EXCEPT !.at = "returned", !.error = banner.exc]
                /\ UNCHANGED <<tool_registry, last_op>>
           ELSE /\ process' = [process EXCEPT !.at = "running", !.run_called = TRUE]
                /\ tool_registry' = auto_discover_tools(tool_registry, ToolsDir).reg
                /\ last_op' = "auto_discover_tools"
    /\ UNCHANGED <<conversation_history, message_count, pc, tool_calls, idx, tool_results,
                   model_calls, dispatch_log, ret, turn_base, load, registry_call,
                   filesystem, file_calls>>

\* the command verbs of handle_command other than quit and exit
CommandVerbs ==
    {"help", "tools", "tool-details", "clear", "stats", "save", "config", "reset"}

\* what the user types at the prompt: the verbs, one of them with capitals and
\* blanks around it, a message, the empty line
UserInputs ==
    {<<v>> : v \in CommandVerbs \cup {"quit", "exit", " Clear "}}
        \cup UserMessages \cup {<<>>}

\* user_input.strip().lower(), for the inputs above
strip_lower(user_input) ==
    IF user_input = <<" Clear ">> THEN "clear" ELSE user_input[1]

\* the file save_conversation writes, a bare name in the working directory made
\* of the message count and a timestamp; the name is kept as its parts, the
\* timestamp left out
SaveName(count) == <<"conversation", count, "json">>

\* ChatBot.handle_command on the bot [conversation_history, message_count,
\* tool_registry, config] and the disk: what it returns or raises, and the bot
\* and the disk afterwards
handle_command(bot, fs, user_input) ==
    LET verb == strip_lower(user_input)
        api == openrouter_in(bot.config.base_url)
        same(value) == [raised |-> FALSE, value |-> value, bot |-> bot, fs |-> fs]
        cleared == [bot EXCEPT !.conversation_history =
                                   <<[role |-> "system",
                                      content |-> bot.config.system_prompt]>>,
                               !.message_count = 0]
    IN  IF verb \in {"quit", "exit"} THEN same(TRUE)
        ELSE IF verb \in {"help", "tools", "tool-details"} THEN same(FALSE)
        ELSE IF verb = "clear"
        THEN [raised |-> FALSE, value |-> FALSE, bot |-> cleared, fs |-> fs]
        ELSE IF verb \in {"stats", "config"}
        THEN IF api.raised
             THEN [raised |-> TRUE, exc |-> api.exc, bot |-> bot, fs |-> fs]
             ELSE same(FALSE)
        ELSE IF verb = "save"
        THEN IF api.raised THEN same(FALSE)
             ELSE [raised |-> FALSE, value |-> FALSE, bot |-> bot,
                   fs |-> [fs EXCEPT !.files =
                              [p \in DOMAIN @ \cup {SaveName(bot.message_count)} |->
                                  IF p = SaveName(bot.message_count)
                                  THEN [message_count |-> bot.message_count,
                                        conversation |-> bot.conversation_history]
                                  ELSE @[p]]]]
        ELSE IF verb = "reset"
        THEN [raised |-> FALSE, value |-> FALSE,
              bot |-> [cleared EXCEPT !.tool_registry =
                                          auto_discover_tools(ToolRegistry, ToolsDir).reg],
              fs |-> fs]
        ELSE same(FALSE)

\* one iteration of the loop of ChatBot.run: the input is read; an empty input
\* is skipped; handle_command runs, and the loop ends if it returns True or
\* raises; otherwise chat(user_input) is called, here up to its first model
\* call being sent
run_loop(user_input) ==
    /\ process.at = "running"
    /\ pc = "idle"
    /\ load < MaxInputs
    /\ IF user_input = <<>>
       THEN UNCHANGED vars
       ELSE LET done == handle_command([conversation_history |-> conversation_history,
                                        message_count |-> message_count,
                                        tool_registry |-> tool_registry,
                                        config |-> process.config],
                                       filesystem, user_input)
            IN  /\ filesystem' = done.fs
                /\ tool_registry' = done.bot.tool_registry
                /\ IF done.raised \/ done.value
                   THEN /\ process' = [process EXCEPT
                                          !.at = "returned",
                                          !.user_input = user_input,
                                          !.handled = ~done.raised,
                                          !.error = IF done.raised THEN done.exc ELSE None]
                        /\ conversation_history' = done.bot.conversation_history
                        /\ message_count' = done.bot.message_count
                        /\ last_op' = "handle_command"
                        /\ UNCHANGED <<pc, tool_calls, idx, tool_results, model_calls,
                                       dispatch_log, ret, turn_base, load>>
                   ELSE /\ process' = [process EXCEPT !.user_input = user_input,
                                                      !.handled = done.value]
                        /\ load' = load + 1
                        /\ message_count' = done.bot.message_count + 1
                        /\ turn_base' = Len(done.bot.conversation_history)
                        /\ conversation_history' =
                               Append(done.bot.conversation_history,
                                      [role |-> "user", content |-> user_input])
                        /\ model_calls' =
                               <<Request(conversation_history',
                                         get_openai_tools(done.bot.tool_registry))>>
                        /\ tool_calls' = <<>>
                        /\ idx' = 1
                        /\ tool_results' = <<>>
                        /\ dispatch_log' = <<>>
                        /\ pc' = "call1"
                        /\ UNCHANGED <<ret, last_op>>
                /\ UNCHANGED <<registry_call, file_calls>>

MainNext ==
    \/ setup_environment
    \/ create_chatbot
    \/ run_chatbot
    \/ \E user_input \in UserInputs : run_loop(user_input)
    \/ \E content \in ModelTexts : ModelAnswers(content)
    \/ ModelCallFails

MainSpec == MainInit /\ [][MainNext]_vars

(***************************************************************************)
(* What the claims speak of.                                               *)
(***************************************************************************)
\* chat has returned and nothing has been called since
TurnEnded == pc = "idle" /\ last_op = "chat"

\* the tool exchange of the turn is in the transcript (from the second model call on)
ExchangeRecorded == tool_calls # <<>> /\ (pc = "call2" \/ TurnEnded)

\* the messages the current turn has appended, the user message first
TurnMessages == SubSeq(conversation_history, turn_base + 1, Len(conversation_history))

\* the messages of seq with the given role, in order
RECURSIVE WithRole(_, _)
WithRole(seq, role) ==
    IF Len(seq) = 0 THEN <<>>
    ELSE (IF seq[1].role = role THEN <<seq[1]>> ELSE <<>>) \o WithRole(Tail(seq), role)

\* the payload of the i-th requested call is no JSON text
FailsToParse(i) == tool_calls[i].function.arguments.syntax = "invalid"

\* the payload of the i-th requested call is a JSON object
ParsesToObject(i) == tool_calls[i].function.arguments.syntax = "object"

\* the i-th requested call names a tool the registry does not hold
NamesUnknownTool(i) ==
    \A t \in 1..Len(tool_registry._tools) :
        tool_registry._tools[t].name # tool_calls[i].function.name

\* the dispatches logged for the call with this id
DispatchesOf(id) == {d \in 1..Len(dispatch_log) : dispatch_log[d].id = id}

\* C1: once the tool calls c1..ck of the first response are processed, the turn's
\* tool-role messages are exactly k, in request order, the i-th carrying the id
\* of ci, whatever happened to each call; while the loop runs, tool_results holds
\* the answers to the calls processed so far, in order.
C1_ToolMessagesInRequestOrder ==
    /\ pc = "tools" =>
           /\ Len(tool_results) = idx - 1
           /\ \A i \in 1..Len(tool_results) :
                  /\ tool_results[i].role = "tool"
                  /\ tool_results[i].tool_call_id = tool_calls[i].id
    /\ ExchangeRecorded =>
           LET answers == WithRole(TurnMessages, "tool")
           IN  /\ Len(answers) = Len(tool_calls)
               /\ \A i \in 1..Len(answers) : answers[i].tool_call_id = tool_calls[i].id

\* C1 witness: a turn ended whose first response asked for three calls: one that
\* fails to parse, one naming an unknown tool, one raising inside the tool
C1_Witness ==
    /\ TurnEnded
    /\ Len(tool_calls) = 3
    /\ \E i, j, k \in 1..3 :
           /\ FailsToParse(i)
           /\ ParsesToObject(j) /\ NamesUnknownTool(j)
           /\ \E d \in DispatchesOf(tool_calls[k].id) : dispatch_log[d].execute_raised
    /\ Len(WithRole(TurnMessages, "tool")) = 3

\* the index of the nearest assistant message before position j of the
\* transcript, 0 when there is none
NearestAssistantBefore(j) ==
    LET earlier == {a \in 1..(j - 1) : conversation_history[a].role = "assistant"}
    IN  IF earlier = {} THEN 0 ELSE CHOOSE a \in earlier : \A b \in earlier : b <= a

\* C2 (as claimed): at the end of a turn every tool-role message's tool_call_id
\* is the id of a tool_calls entry of the nearest earlier assistant message.
C2_ToolMessageAnswersPrecedingAssistant ==
    TurnEnded =>
        \A j \in 1..Len(conversation_history) :
            conversation_history[j].role = "tool" =>
                LET a == NearestAssistantBefore(j)
                IN  /\ a # 0
                    /\ "tool_calls" \in DOMAIN conversation_history[a]
                    /\ \E c \in 1..Len(conversation_history[a].tool_calls) :
                           conversation_history[a].tool_calls[c].id
                               = conversation_history[j].tool_call_id

\* C3 (as claimed): once the calls are processed, every requested call, one that
\* fails to parse or whose dispatch fails included, has in the turn's messages an
\* assistant message whose tool_calls is exactly that call and a tool-role
\* message with the same id.
C3_EveryCallRecordedAsPair ==
    ExchangeRecorded =>
        \A i \in 1..Len(tool_calls) :
            /\ \E m \in 1..Len(TurnMessages) :
                   /\ TurnMessages[m].role = "assistant"
                   /\ "tool_calls" \in DOMAIN TurnMessages[m]
                   /\ Len(TurnMessages[m].tool_calls) = 1
                   /\ TurnMessages[m].tool_calls[1].id = tool_calls[i].id
                   /\ TurnMessages[m].tool_calls[1].function = tool_calls[i].function
            /\ \E m \in 1..Len(TurnMessages) :
                   /\ TurnMessages[m].role = "tool"
                   /\ TurnMessages[m].tool_call_id = tool_calls[i].id

\* the tool-role messages of the turn that answer the i-th requested call
AnswersTo(i) ==
    {m \in 1..Len(TurnMessages) :
        /\ TurnMessages[m].role = "tool"
        /\ TurnMessages[m].tool_call_id = tool_calls[i].id}

\* the text says that a tool was not found
SaysNotFound(text) == Mentions(text, "' not found. Available tools: ")

\* what chat returns for a model response with this content
AnswerFor(content) ==
    IF content = None \/ content = <<>>
    THEN <<"I don't have a response for that.">>
    ELSE content

\* the turn went on to its second model call and, when that call gave a
\* response, returned it as the answer
TurnCompletes ==
    /\ Len(model_calls) = 2
    /\ (TurnEnded /\ ~model_calls[2].response.raised) =>
           /\ ~ret.raised
           /\ ret.value = AnswerFor(model_calls[2].response.value.content)

Omitted(name, kwargs) ==
    LET t == CHOOSE t \in 1..Len(tool_registry._tools) : tool_registry._tools[t].name = name
        ps == tool_registry._tools[t].parameters
    IN  {ps[p].name : p \in {q \in 1..Len(ps) : ps[q].required /\ ps[q].name \notin kwargs}}

\* the names a missing-parameter error text lists
NamesListed(text) == {text[n] : n \in 3..Len(text)} \ {", "}

\* C5: a dispatch to a registered tool that omits the non-empty set S of its
\* required parameters gives the missing-parameter error naming exactly the
\* members of S and does not call execute; with none omitted execute is called
\* once.
C5_MissingParametersAllNamed ==
    \A d \in 1..Len(dispatch_log) :
        LET e == dispatch_log[d]
        IN  (\E t \in 1..Len(tool_registry._tools) : tool_registry._tools[t].name = e.name) =>
                /\ ~e.raised
                /\ Cardinality(DispatchesOf(e.id)) = 1
                /\ Omitted(e.name, e.kwargs) # {} =>
                       /\ e.executed = 0
                       /\ Len(e.result) >= 3
                       /\ e.result[1] = "Error: "
                       /\ e.result[2] = "Missing required parameters: "
                       /\ NamesListed(e.result) = Omitted(e.name, e.kwargs)
                /\ Omitted(e.name, e.kwargs) = {} => e.executed = 1

\* C5 witness: one turn dispatched the tool "pair" without both of its required
\* parameters and, in another call, with both
C5_Witness ==
    \E d1, d2 \in 1..Len(dispatch_log) :
        /\ dispatch_log[d1].name = "pair" /\ dispatch_log[d2].name = "pair"
        /\ Len(tool_registry._tools) > 0
        /\ Omitted("pair", dispatch_log[d1].kwargs) = {"a", "b"}
        /\ dispatch_log[d1].executed = 0
        /\ Omitted("pair", dispatch_log[d2].kwargs) = {}
        /\ dispatch_log[d2].executed = 1

\* C6: a call whose payload is no JSON gets an error result, the calls after it
\* are still dispatched, in request order, and the second model call is made.
C6_ParseFailureDoesNotAbort ==
    /\ \A d1, d2 \in 1..Len(dispatch_log) :
           d1 < d2 => dispatch_log[d1].id < dispatch_log[d2].id
    /\ ExchangeRecorded =>
           \A i \in 1..Len(tool_calls) :
               FailsToParse(i) =>
                   /\ AnswersTo(i) # {}
                   /\ \A m \in AnswersTo(i) : TurnMessages[m].content[1] = "Error: "
                   /\ \A j \in (i + 1)..Len(tool_calls) :
                          ParsesToObject(j) => DispatchesOf(tool_calls[j].id) # {}
                   /\ Len(model_calls) = 2

\* C6 witness: a turn ended in which a call after an unparseable one was executed
C6_Witness ==
    /\ TurnEnded
    /\ Len(model_calls) = 2
    /\ \E i, j \in 1..Len(tool_calls) :
           /\ i < j
           /\ FailsToParse(i)
           /\ \E d \in DispatchesOf(tool_calls[j].id) : dispatch_log[d].executed = 1

\* C7: when execute raises, execute_tool does not raise but returns an error
\* text; that text is the content of the call's tool-role message, every
\* requested call is answered and the second model call is made.
C7_ToolExceptionBecomesResult ==
    \A d \in 1..Len(dispatch_log) :
        dispatch_log[d].execute_raised =>
            /\ ~dispatch_log[d].raised
            /\ dispatch_log[d].result[1] = "Error: "
            /\ pc = "tools" =>
                   \E r \in 1..Len(tool_results) :
                       /\ tool_results[r].tool_call_id = dispatch_log[d].id
                       /\ tool_results[r].content = dispatch_log[d].result
            /\ ExchangeRecorded =>
                   /\ \E m \in 1..Len(TurnMessages) :
                          /\ TurnMessages[m].role = "tool"
                          /\ TurnMessages[m].tool_call_id = dispatch_log[d].id
                          /\ TurnMessages[m].content = dispatch_log[d].result
                   /\ \A i \in 1..Len(tool_calls) : AnswersTo(i) # {}
                   /\ Len(model_calls) = 2

\* C7 witness: a turn ended with an answer although the first of two executed
\* tools raised
C7_Witness ==
    /\ TurnEnded
    /\ ~model_calls[Len(model_calls)].response.raised
    /\ Len(dispatch_log) = 2
    /\ dispatch_log[1].execute_raised
    /\ dispatch_log[2].executed = 1 /\ ~dispatch_log[2].execute_raised

\* the n-th model call of the turn fails in this step
FailsNow(n) ==
    /\ n <= Len(model_calls)
    /\ model_calls[n].response = Pending
    /\ model_calls'[n].response # Pending
    /\ model_calls'[n].response.raised

\* C8: a failing model call leaves the transcript as it is; after a failure of
\* the second call it holds the turn's user message and its whole tool exchange
\* (what the second call was sent); and the first model call of every turn is
\* sent the whole transcript from before the turn plus the new user message.
C8_ModelCallFailureKeepsTranscript ==
    [][/\ (FailsNow(1) \/ FailsNow(2)) => conversation_history' = conversation_history
       /\ FailsNow(2) =>
              /\ conversation_history'[turn_base + 1].role = "user"
              /\ \A i \in 1..Len(tool_calls) :
                     \E m \in (turn_base + 2)..Len(conversation_history') :
                         /\ conversation_history'[m].role = "tool"
                         /\ conversation_history'[m].tool_call_id = tool_calls[i].id
              /\ conversation_history' = model_calls[2].messages
       /\ (pc = "idle" /\ pc' = "call1") =>
              \E message \in UserMessages :
                  model_calls'[1].messages =
                      Append(conversation_history, [role |-> "user", content |-> message])
      ]_vars

\* C8 witness: the first model call of a turn that follows a turn whose second
\* model call failed (the transcript before the new user message ends with a
\* tool-role message) has been sent the whole transcript
C8_Witness ==
    /\ pc = "call1"
    /\ turn_base >= 3
    /\ conversation_history[turn_base].role = "tool"
    /\ model_calls[1].messages = conversation_history

\* a model call of the turn failed
SomeModelCallFailed ==
    \E n \in 1..Len(model_calls) :
        /\ model_calls[n].response # Pending
        /\ model_calls[n].response.raised

\* C9 (as claimed): chat ends in a failure its caller can tell from an answer
\* exactly when a model call of the turn failed.
C9_ModelCallFailureSurfacedAsFailure ==
    TurnEnded => (ret.raised <=> SomeModelCallFailed)

\* C10: the transcript begins with the system message holding the configured
\* prompt, and no other message has role system.
C10_ExactlyOneLeadingSystemMessage ==
    /\ Len(conversation_history) >= 1
    /\ conversation_history[1] = [role |-> "system", content |-> config.system_prompt]
    /\ \A i \in 2..Len(conversation_history) : conversation_history[i].role # "system"

\* C10 witness: a turn with tool use has ended, after an earlier turn and a clear
C10_Witness ==
    /\ TurnEnded
    /\ tool_calls # <<>>
    /\ message_count = 1
    /\ load > 1 + Len(tool_calls)
    /\ Len(conversation_history) >= 4

\* s is t, or t cut after some message
IsPrefix(s, t) == Len(s) <= Len(t) /\ SubSeq(t, 1, Len(s)) = s

\* C11: every step of a chat turn leaves the transcript it found as a prefix of
\* the transcript it leaves, the step that opens the turn makes it longer, so
\* that when chat returns, with an answer or after a failed model call, the
\* transcript is longer than before the turn; and clear_history leaves exactly
\* one message and message_count 0.
C11_TurnsOnlyAppend ==
    [][/\ (pc # "idle" \/ pc' # "idle") =>
              IsPrefix(conversation_history, conversation_history')
       /\ (pc = "idle" /\ pc' # "idle") =>
              /\ turn_base' = Len(conversation_history)
              /\ Len(conversation_history') > Len(conversation_history)
       /\ (pc # "idle" /\ pc' = "idle") =>
              /\ last_op' = "chat"
              /\ Len(conversation_history') > turn_base
       /\ (pc = "idle" /\ pc' = "idle" /\ last_op' = "clear_history") =>
              /\ Len(conversation_history') = 1
              /\ message_count' = 0
      ]_vars

\* C11 witness: the history was cleared after earlier turns, and the one turn
\* made since ended on a failed first model call with the user message kept
C11_Witness ==
    /\ TurnEnded
    /\ message_count = 1
    /\ load >= 4
    /\ Len(model_calls) = 1
    /\ model_calls[1].response.raised
    /\ Len(conversation_history) = 2
    /\ conversation_history[2].role = "user"

\* the first model call of the turn gave a response without tool calls
FirstResponseWithoutToolCalls ==
    /\ Len(model_calls) >= 1
    /\ model_calls[1].response # Pending
    /\ ~model_calls[1].response.raised
    /\ model_calls[1].response.value.tool_calls = <<>>

\* C12: a turn whose first response carries no tool calls has made one model
\* call and no dispatch, has appended the user message and after it one
\* assistant message holding the response's content, and returns the response's
\* text, or the placeholder when the text is empty or None.
C12_NoToolCallsOneModelCall ==
    (TurnEnded /\ FirstResponseWithoutToolCalls) =>
        LET content == model_calls[1].response.value.content
        IN  /\ Len(model_calls) = 1
            /\ dispatch_log = <<>>
            /\ tool_results = <<>>
            /\ Len(TurnMessages) = 2
            /\ TurnMessages[1].role = "user"
            /\ TurnMessages[2] = [role |-> "assistant", content |-> content]
            /\ ~ret.raised
            /\ ret.value = IF content = None \/ content = <<>>
                           THEN <<"I don't have a response for that.">>
                           ELSE content

\* C12 witness: with tools registered, the first response had the empty text and
\* no tool calls, and the turn returned the placeholder
C12_Witness ==
    /\ TurnEnded
    /\ FirstResponseWithoutToolCalls
    /\ Len(tool_registry._tools) > 0
    /\ model_calls[1].response.value.content = <<>>
    /\ ret.value = <<"I don't have a response for that.">>

\* the ids of the calls the first response requested
RequestedIds == {tool_calls[i].id : i \in 1..Len(tool_calls)}

\* C13: a turn makes at most two model calls; the second exists only once every
\* call requested by the first response is processed and answered in the
\* messages it is sent, it is sent no tool schemas and no tool choice, the tool
\* calls its response may carry are never dispatched, and once it has a
\* response or has failed the turn is over.
C13_AtMostTwoModelCalls ==
    /\ Len(model_calls) <= 2
    /\ pc \in {"call1", "tools"} => Len(model_calls) = 1
    /\ \A d \in 1..Len(dispatch_log) : dispatch_log[d].id \in RequestedIds
    /\ Len(model_calls) = 2 =>
           /\ tool_calls # <<>>
           /\ idx = Len(tool_calls) + 1
           /\ \A i \in 1..Len(tool_calls) :
                  \E m \in 1..Len(model_calls[2].messages) :
                      /\ model_calls[2].messages[m].role = "tool"
                      /\ model_calls[2].messages[m].tool_call_id = tool_calls[i].id
           /\ model_calls[2].tools = NoList
           /\ model_calls[2].tool_choice = None
           /\ model_calls[2].response = Pending <=> pc = "call2"
           /\ model_calls[2].response # Pending => TurnEnded

\* C13 witness: with the tool "pair" registered, the second response asked for a
\* call of "pair"; the turn ended and that call was not dispatched
C13_Witness ==
    /\ TurnEnded
    /\ Len(model_calls) = 2
    /\ ~model_calls[2].response.raised
    /\ model_calls[2].response.value.tool_calls # <<>>
    /\ \E t \in 1..Len(tool_registry._tools) :
           tool_registry._tools[t].name
               = model_calls[2].response.value.tool_calls[1].function.name
    /\ \A d \in 1..Len(dispatch_log) :
           dispatch_log[d].id # model_calls[2].response.value.tool_calls[1].id
    /\ Len(dispatch_log) = Len(tool_calls)

\* the positions of the registered tools whose schema conversion succeeds
Convertible ==
    {t \in 1..Len(tool_registry._tools) :
        "to_openai_tool" \notin DOMAIN tool_registry._tools[t]}

\* C14 (as claimed): the first model call is given tool schemas and the tool
\* choice "auto" when the registry holds at least one tool, and neither when the
\* registry is empty.
C14_SchemasWheneverRegistryNonEmpty ==
    pc = "call1" =>
        /\ Len(tool_registry._tools) > 0 =>
               /\ ~model_calls[1].tools.is_none
               /\ model_calls[1].tool_choice = <<"auto">>
        /\ Len(tool_registry._tools) = 0 =>
               /\ model_calls[1].tools = NoList
               /\ model_calls[1].tool_choice = None

\* C14 (amended): the first model call is given one schema for each registered
\* tool whose conversion succeeds, in registration order, and the tool choice
\* "auto", when there is such a tool; it is given no schemas and no tool choice
\* when there is none (the registry is empty or no registered tool converts).
C14_SchemasWheneverSomeToolConverts ==
    pc = "call1" =>
        /\ Convertible # {} =>
               /\ ~model_calls[1].tools.is_none
               /\ Len(model_calls[1].tools.items) = Cardinality(Convertible)
               /\ \A t \in Convertible :
                      \E i \in 1..Len(model_calls[1].tools.items) :
                          /\ model_calls[1].tools.items[i].function.name
                                 = tool_registry._tools[t].name
                          /\ i = Cardinality({u \in Convertible : u <= t})
               /\ model_calls[1].tool_choice = <<"auto">>
        /\ Convertible = {} =>
               /\ model_calls[1].tools = NoList
               /\ model_calls[1].tool_choice = None

\* C14 witness: the first call of a turn is in flight with the schema of
\* "calculator" alone, the registry holding also a tool that does not convert
C14_Witness ==
    /\ pc = "call1"
    /\ list_tools(tool_registry) = <<"broken", "calculator">>
    /\ ~model_calls[1].tools.is_none
    /\ Len(model_calls[1].tools.items) = 1
    /\ model_calls[1].tools.items[1].function.name = "calculator"

\* the positions of the registry's mapping that hold the name
EntriesUnder(reg, name) == {i \in 1..Len(reg._tools) : reg._tools[i].name = name}

\* register has just been called with a tool it accepts
RegisteredValidTool ==
    /\ registry_call.op = "register"
    /\ registry_call.tool.is_tool
    /\ registry_call.tool.name # ""

\* C15: in every registry no two entries have the same name; and after register
\* was called with a tool whose name was already registered, that name has one
\* entry, bound to the new tool, at the position it had, and list_tools() is
\* what it was.
C15_OverwriteKeepsPosition ==
    /\ \A i, j \in 1..Len(tool_registry._tools) :
           tool_registry._tools[i].name = tool_registry._tools[j].name => i = j
    /\ (RegisteredValidTool
          /\ EntriesUnder(registry_call.before, registry_call.tool.name) # {}) =>
           LET name == registry_call.tool.name
           IN  /\ Cardinality(EntriesUnder(tool_registry, name)) = 1
               /\ \A i \in EntriesUnder(tool_registry, name) :
                      tool_registry._tools[i] = registry_call.tool
               /\ EntriesUnder(tool_registry, name)
                      = EntriesUnder(registry_call.before, name)
               /\ Len(list_tools(tool_registry)) = Len(list_tools(registry_call.before))
               /\ list_tools(tool_registry) = list_tools(registry_call.before)

\* C15 witness: the second calculator was registered over the first one, which
\* discovery had put first of three tools
C15_Witness ==
    /\ RegisteredValidTool
    /\ registry_call.tool = CalculatorToolV2
    /\ Len(registry_call.before._tools) = 3
    /\ registry_call.before._tools[1] = CalculatorTool
    /\ tool_registry._tools[1] = CalculatorToolV2
    /\ list_tools(tool_registry) = <<"calculator", "pair", "weather">>

\* register has just been called with an object it rejects
RegisteredInvalidTool ==
    /\ registry_call.op = "register"
    /\ (~registry_call.tool.is_tool \/ registry_call.tool.name = "")

\* C16: register returns to its caller; called with an object that is no tool or
\* has the empty name it leaves the mapping as it was and appends one message to
\* the error list; called with a valid tool it binds the tool's name to the
\* tool, leaves the other entries and the error list as they were.
C16_RegisterRecordsInvalidTools ==
    LET before == registry_call.before
        errors == tool_registry._tool_errors
    IN  /\ RegisteredInvalidTool =>
               /\ tool_registry._tools = before._tools
               /\ Len(errors) = Len(before._tool_errors) + 1
               /\ SubSeq(errors, 1, Len(before._tool_errors)) = before._tool_errors
               /\ errors[Len(errors)][1] = "Failed to register tool: "
        /\ RegisteredValidTool =>
               /\ errors = before._tool_errors
               /\ EntriesUnder(tool_registry, registry_call.tool.name) # {}
               /\ \A i \in EntriesUnder(tool_registry, registry_call.tool.name) :
                      tool_registry._tools[i] = registry_call.tool
               /\ \A i \in 1..Len(before._tools) :
                      before._tools[i].name # registry_call.tool.name =>
                          tool_registry._tools[i] = before._tools[i]

\* C16 witness: a tool with the empty name was handed to a registry that held
\* two tools and one error message; it holds the same tools and two messages
C16_Witness ==
    /\ RegisteredInvalidTool
    /\ registry_call.tool = NamelessTool
    /\ Len(registry_call.before._tools) = 2
    /\ tool_registry._tools = registry_call.before._tools
    /\ Len(registry_call.before._tool_errors) = 1
    /\ Len(tool_registry._tool_errors) = 2

\* the names a not-found error text lists after its three leading parts, in order
NotFoundNames(msg) ==
    LET at == {k \in 4..Len(msg) : msg[k] # ", "}
    IN  [i \in 1..Cardinality(at) |->
            msg[CHOOSE k \in at : Cardinality({l \in at : l <= k}) = i]]

\* C17: get_tool(name) leaves the registry as it was; with the name registered
\* it returns the tool bound to it; otherwise it raises an error whose text
\* says that the tool of this name was not found and lists the registered
\* names, all of them and no other.
C17_GetToolReturnsOrListsNames ==
    registry_call.op = "get_tool" =>
        LET name == registry_call.name
            result == registry_call.result
        IN  /\ tool_registry = registry_call.before
            /\ EntriesUnder(tool_registry, name) # {} =>
                   /\ ~result.raised
                   /\ \A i \in EntriesUnder(tool_registry, name) :
                          result.value = tool_registry._tools[i]
            /\ EntriesUnder(tool_registry, name) = {} =>
                   /\ result.raised
                   /\ Len(result.exc.msg) >= 3
                   /\ result.exc.msg[2] = name
                   /\ SaysNotFound(result.exc.msg)
                   /\ NotFoundNames(result.exc.msg) = list_tools(tool_registry)

\* C17 witness: "teleport" was looked up in a registry holding "weather" and
\* "calculator", and the error lists these two
C17_Witness ==
    /\ registry_call.op = "get_tool"
    /\ registry_call.name = "teleport"
    /\ registry_call.result.raised
    /\ list_tools(tool_registry) = <<"weather", "calculator">>
    /\ NotFoundNames(registry_call.result.exc.msg) = <<"weather", "calculator">>

\* the instances of the classes of an imported module that instantiate
InstancesOf(classes) ==
    {classes[c].instance.value :
        c \in {k \in 1..Len(classes) : ~classes[k].instance.raised}}

\* the tools a scan of the directory has to register: the instances from every
\* file that is scanned and imports
LoadedTools(dir) ==
    UNION {InstancesOf(dir.files[f].module.value) :
              f \in {g \in 1..Len(dir.files) :
                        /\ dir.files[g].name[1] # "__"
                        /\ dir.files[g].size > 0
                        /\ ~dir.files[g].module.raised}}

\* the files of the directory that fail to load or hold a class that fails to
\* instantiate
FailingFiles(dir) ==
    {f \in 1..Len(dir.files) :
        \/ dir.files[f].module.raised
        \/ \E c \in 1..Len(dir.files[f].module.value) :
               dir.files[f].module.value[c].instance.raised}

\* C18: auto_discover_tools returns to its caller, and after it every named tool
\* that a file of the directory gives (the file imports, the class instantiates)
\* is registered under its name, also when another file, before or after it in
\* the scan, failed to load or to instantiate.
C18_DiscoveryIsolatesFailingUnit ==
    registry_call.op = "auto_discover_tools" =>
        \A tool \in LoadedTools(registry_call.dir) :
            tool.name # "" =>
                /\ EntriesUnder(tool_registry, tool.name) # {}
                /\ \A i \in EntriesUnder(tool_registry, tool.name) :
                       tool_registry._tools[i] = tool

\* C18 witness: of three files the second failed to load, and the tools of the
\* first and of the third are registered
C18_Witness ==
    /\ registry_call.op = "auto_discover_tools"
    /\ Len(registry_call.dir.files) = 3
    /\ FailingFiles(registry_call.dir) = {2}
    /\ registry_call.dir.files[2].module.raised
    /\ list_tools(tool_registry) = <<"calculator", "weather">>
    /\ Len(registry_call.errors) = 1

\* the names of the parameters marked required
MarkedRequired(ps) == {ps[i].name : i \in {k \in 1..Len(ps) : ps[k].required}}

\* the position at which the parameter list declares the name
DeclaredAt(ps, name) == CHOOSE i \in 1..Len(ps) : ps[i].name = name

\* C19: to_openai_tool changes nothing and gives a function schema with the
\* tool's name and description whose properties has exactly the declared
\* parameter names as keys, each with the parameter's type and description and
\* with its enum exactly when the parameter declares one, and whose required
\* lists the names marked required, each once, in the order of declaration.
C19_SchemaFollowsDeclaration ==
    registry_call.op = "to_openai_tool" =>
        LET tool == registry_call.tool
            ps == tool.parameters
            schema == registry_call.result.value
            properties == schema.function.parameters.properties
            required == schema.function.parameters.required
        IN  /\ tool_registry = registry_call.before
            /\ ~registry_call.result.raised
            /\ schema.type = "function"
            /\ schema.function.name = tool.name
            /\ schema.function.description = tool.description
            /\ schema.function.parameters.type = "object"
            /\ DOMAIN properties = {ps[i].name : i \in 1..Len(ps)}
            /\ \A i \in 1..Len(ps) :
                   /\ properties[ps[i].name].type = ps[i].type
                   /\ properties[ps[i].name].description = ps[i].description
                   /\ "enum" \in DOMAIN properties[ps[i].name] <=> ps[i].enum # <<>>
                   /\ ps[i].enum # <<>> => properties[ps[i].name].enum = ps[i].enum
            /\ {required[r] : r \in 1..Len(required)} = MarkedRequired(ps)
            /\ Len(required) = Cardinality(MarkedRequired(ps))
            /\ \A r1, r2 \in 1..Len(required) :
                   r1 < r2 => DeclaredAt(ps, required[r1]) < DeclaredAt(ps, required[r2])
            /\ \A r \in 1..Len(required) : required[r] \in DOMAIN properties

\* C19 witness: a tool declaring a required parameter with an enum after an
\* optional one with an enum was converted
C19_Witness ==
    /\ registry_call.op = "to_openai_tool"
    /\ Len(registry_call.tool.parameters) = 2
    /\ registry_call.tool.parameters[1].name = "mode"
    /\ registry_call.tool.parameters[2].name = "y"
    /\ registry_call.result.value.function.parameters.required = <<"y">>
    /\ registry_call.result.value.function.parameters.properties["mode"].enum
           = <<"fast", "slow">>

\* the position in the registry of the i-th tool whose conversion succeeds
ConvertibleAt(i) ==
    CHOOSE t \in Convertible : Cardinality({u \in Convertible : u <= t}) = i

\* C20: get_openai_tools returns to its caller, leaves the registry as it was,
\* and gives one schema for each registered tool whose conversion succeeds, in
\* registration order: a tool whose conversion raises is left out and the
\* tools before and after it are not.
C20_ConversionFailureExcludesOneTool ==
    registry_call.op = "get_openai_tools" =>
        LET schemas == registry_call.result.value
        IN  /\ ~registry_call.result.raised
            /\ tool_registry = registry_call.before
            /\ Len(schemas) = Cardinality(Convertible)
            /\ \A i \in 1..Len(schemas) :
                   /\ schemas[i].function.name = tool_registry._tools[ConvertibleAt(i)].name
                   /\ schemas[i].function.description
                          = tool_registry._tools[ConvertibleAt(i)].description
                   /\ Len(schemas[i].function.parameters.required)
                          = Cardinality(MarkedRequired(
                                tool_registry._tools[ConvertibleAt(i)].parameters))

\* C20 witness: the registry holds a tool that does not convert between two that
\* do, and the schemas of these two were returned in order
C20_Witness ==
    /\ registry_call.op = "get_openai_tools"
    /\ list_tools(tool_registry) = <<"weather", "broken", "calculator">>
    /\ Len(registry_call.result.value) = 2
    /\ registry_call.result.value[1].function.name = "weather"
    /\ registry_call.result.value[2].function.name = "calculator"

\* C22: no step of a chat turn changes the registry: the mapping and the error
\* list are after the step what they were before it, whatever the model asked
\* for and whatever the tools did.
C22_TurnLeavesRegistryAlone ==
    [][(pc # "idle" \/ pc' # "idle") =>
           /\ tool_registry'._tools = tool_registry._tools
           /\ tool_registry'._tool_errors = tool_registry._tool_errors
      ]_vars

\* C22 witness: with tools registered, a turn ended in which one call omitted a
\* required parameter, one named an unknown tool and one raised inside the tool
C22_Witness ==
    /\ TurnEnded
    /\ Len(tool_registry._tools) = 3
    /\ tool_registry._tool_errors = <<>>
    /\ Len(tool_calls) = 3
    /\ \E d1, d2, d3 \in 1..Len(dispatch_log) :
           /\ dispatch_log[d1].name = "pair"
           /\ dispatch_log[d1].executed = 0
           /\ dispatch_log[d2].name = "teleport"
           /\ dispatch_log[d3].execute_raised

\* C23: tool executions are serialised. A step dispatches at most one call, the
\* one at the loop's position, with its result known in the same step, and
\* moves the position on by one; the second model call is sent only when the
\* position is past the last requested call, and from then on nothing is
\* dispatched; a new turn begins only when no turn is running.
C23_ExecutionsSerialised ==
    [][/\ dispatch_log' # dispatch_log =>
              \/ /\ pc = "idle"
                 /\ dispatch_log' = <<>>
              \/ /\ pc = "tools" /\ pc' = "tools"
                 /\ idx <= Len(tool_calls)
                 /\ idx' = idx + 1
                 /\ tool_calls' = tool_calls
                 /\ Len(dispatch_log') = Len(dispatch_log) + 1
                 /\ SubSeq(dispatch_log', 1, Len(dispatch_log)) = dispatch_log
                 /\ dispatch_log'[Len(dispatch_log')].id = tool_calls[idx].id
                 /\ \A d \in 1..Len(dispatch_log) :
                        dispatch_log[d].id < tool_calls[idx].id
       /\ Len(model_calls') > Len(model_calls) =>
              \/ pc = "idle" /\ Len(model_calls') = 1
              \/ /\ pc = "tools"
                 /\ idx > Len(tool_calls)
                 /\ dispatch_log' = dispatch_log
       /\ pc = "call2" => dispatch_log' = dispatch_log \/ pc' = "idle"
       /\ message_count' > message_count => pc = "idle"
      ]_vars

\* C23 witness: the second model call is in flight after three requested calls
\* were executed one after the other, the second of them raising
C23_Witness ==
    /\ pc = "call2"
    /\ Len(tool_calls) = 3
    /\ Len(dispatch_log) = 3
    /\ \A d \in 1..3 : dispatch_log[d].id = tool_calls[d].id /\ dispatch_log[d].executed = 1
    /\ dispatch_log[2].execute_raised
    /\ Len(model_calls) = 2

\* C29: message_count is the number of user-role messages in the transcript, in
\* every state: chat adds one to both before the model is called (so a failing
\* model call leaves both incremented), clear_history and reset_chatbot take
\* both back to zero.
C29_CountIsUserMessages ==
    /\ message_count = Len(WithRole(conversation_history, "user"))
    /\ last_op \in {"clear_history", "reset_chatbot"} /\ pc = "idle" =>
           /\ message_count = 0
           /\ conversation_history = <<SystemMessage>>

\* C29 witness: the second turn since the last clear ended with a failed model
\* call, and both user messages are counted
C29_Witness ==
    /\ TurnEnded
    /\ model_calls[Len(model_calls)].response = Raise(ModelCallError)
    /\ message_count = 2
    /\ Len(WithRole(conversation_history, "user")) = 2
    /\ load > 2

\* the tools of the directory that register turns away
RejectedTools(dir) == {tool \in LoadedTools(dir) : ~tool.is_tool \/ tool.name = ""}

\* C24, as stated: after a scan of a directory whose tools are all valid, the
\* stats snapshot counts one error for each file that failed to load or to
\* instantiate.
C24_StatsCountDiscoveryFailures ==
    /\ registry_call.op = "auto_discover_tools"
    /\ RejectedTools(registry_call.dir) = {}
    => get_registry_stats(tool_registry).errors =
           Len(registry_call.before._tool_errors)
               + Cardinality(FailingFiles(registry_call.dir))

\* C25, as stated: the count of tools found that a scan reports is the number of
\* tools the scan added to the registry.
C25_ToolsFoundCountsRegistrations ==
    registry_call.op = "auto_discover_tools" =>
        registry_call.tools_found =
            Len(tool_registry._tools) - Len(registry_call.before._tools)

\* the ids of the tool calls that assistant messages of the transcript carry
\* and no tool-role message of the transcript answers
UnansweredIds(history) ==
    {history[m].tool_calls[1].id :
        m \in {k \in 1..Len(history) : "tool_calls" \in DOMAIN history[k]}}
    \ {history[m].tool_call_id :
        m \in {k \in 1..Len(history) : history[k].role = "tool"}}

\* C26, as stated: the step in which an interrupt abandons a turn leaves the
\* transcript from before the turn as a prefix of the transcript, and leaves no
\* assistant message with tool_calls whose call id no tool-role message answers.
C26_InterruptLeavesTranscriptPaired ==
    [][last_op' = "interrupted" /\ last_op # "interrupted" =>
           /\ IsPrefix(SubSeq(conversation_history, 1, turn_base), conversation_history')
           /\ UnansweredIds(conversation_history') = {}
      ]_vars

\* the text holds the part, token after token
Contains(text, part) ==
    \E i \in 0..(Len(text) - Len(part)) : SubSeq(text, i + 1, i + Len(part)) = part

\* the last two calls of the tool were a write given a filepath and a content,
\* and a read of the same filepath; the filepath was no directory
WroteThenRead ==
    /\ Len(file_calls) = 2
    /\ file_calls[1].action = "write"
    /\ Truthy(file_calls[1].filepath)
    /\ file_calls[1].content # None
    /\ file_calls[1].filepath \notin file_calls[1].before.dirs
    /\ file_calls[2].action = "read"
    /\ file_calls[2].filepath = file_calls[1].filepath

\* C30, as stated: a read that follows a write to the same filepath returns a
\* text that holds the written content, whatever the filepath.
C30_WriteThenReadRoundTrip ==
    WroteThenRead => Contains(file_calls[2].result, file_calls[1].content)

\* MAX_TOKENS and TEMPERATURE are not set or hold a number
NumbersParse(env) ==
    /\ ~int(getenv(env, "MAX_TOKENS", <<"1000">>)).raised
    /\ ~float(getenv(env, "TEMPERATURE", <<"0.7">>)).raised

\* main has the Config of OpenRouter, with the OpenRouter key
SelectsOpenRouter ==
    /\ process.at = "configured"
    /\ process.config.base_url = OpenRouterURL
    /\ process.config.api_key = process.env.OPENROUTER_API_KEY

\* main has the Config of OpenAI, with the OpenAI key
SelectsOpenAI ==
    /\ process.at = "configured"
    /\ process.config.base_url = None
    /\ process.config.api_key = process.env.OPENAI_API_KEY

\* from_env raised its configuration error and the program has exited with
\* status 1: no ChatBot was created, no turn was run
FailsBeforeChatBot ==
    /\ process.at = "exited"
    /\ process.code = 1
    /\ process.error.type = "ValueError"
    /\ conversation_history = <<>>
    /\ message_count = 0
    /\ model_calls = <<>>

\* C21, as stated: OpenRouter whenever OPENROUTER_API_KEY is set, OpenAI when
\* only OPENAI_API_KEY is set, the configuration error and the exit when neither
\* is set; set meaning present in the environment.
C21_SelectionByKeysSet ==
    process.at \in {"configured", "exited"} =>
        LET or_set == process.env.OPENROUTER_API_KEY # None
            oa_set == process.env.OPENAI_API_KEY # None
        IN  /\ or_set => SelectsOpenRouter
            /\ ~or_set /\ oa_set => SelectsOpenAI
            /\ ~or_set /\ ~oa_set => FailsBeforeChatBot

\* C21, amended: with MAX_TOKENS and TEMPERATURE unset or numeric, from_env
\* selects OpenRouter whenever OPENROUTER_API_KEY is a non-empty text, also when
\* OPENAI_API_KEY is one too, and OpenAI when only OPENAI_API_KEY is a non-empty
\* text; when neither key is a non-empty text, or a numeric setting does not
\* parse, it fails with the configuration error and the program exits with
\* status 1 before any ChatBot is created or any turn is run.
C21_SelectionByNonEmptyKeys ==
    process.at \in {"configured", "exited"} =>
        LET or_key == Truthy(process.env.OPENROUTER_API_KEY)
            oa_key == Truthy(process.env.OPENAI_API_KEY)
            numbers == NumbersParse(process.env)
        IN  /\ or_key /\ numbers => SelectsOpenRouter
            /\ ~or_key /\ oa_key /\ numbers => SelectsOpenAI
            /\ (~or_key /\ ~oa_key) \/ ~numbers => FailsBeforeChatBot

\* C21 witness: both keys are non-empty, MAX_TOKENS is 500, and main holds the
\* OpenRouter Config with max_tokens 500
C21_Witness ==
    /\ SelectsOpenRouter
    /\ Truthy(process.env.OPENAI_API_KEY)
    /\ process.env.MAX_TOKENS = <<"500">>
    /\ process.config.max_tokens = 500
    /\ process.config.model = <<"openai/gpt-4o-mini">>

\* C27, as stated: when the input was a command verb, handle_command reported
\* it as handled, no user message with the input is in the transcript, no model
\* call was sent it, and after clear the transcript is the system message alone.
C27_CommandVerbOnlyRunsItsOperation ==
    /\ process.at \in {"running", "returned"}
    /\ process.user_input # None
    /\ strip_lower(process.user_input) \in CommandVerbs
    => /\ process.handled
       /\ \A m \in 1..Len(conversation_history) :
              ~(/\ conversation_history[m].role = "user"
                /\ conversation_history[m].content = process.user_input)
       /\ \A c \in 1..Len(model_calls) :
              \A m \in 1..Len(model_calls[c].messages) :
                  ~(/\ model_calls[c].messages[m].role = "user"
                    /\ model_calls[c].messages[m].content = process.user_input)
       /\ strip_lower(process.user_input) = "clear" =>
              conversation_history = <<SystemMessage>>

\* C28, as stated: whichever Config from_env returned, once the ChatBot is
\* created the program goes on into ChatBot.run: run_chatbot does not return
\* without having called it.
C28_StartupReachesRun ==
    process.at \in {"running", "returned"} => process.run_called

====
